---------------------------- MODULE Spec2Model ----------------------------
(***************************************************************************)
(* A model of applepassgenerator: the ApplePass document, its model        *)
(* objects (Barcode, RelevantDate, Location, IBeacon, Field,               *)
(* PassInformation), the canonical document json_dict() builds, and the    *)
(* create() pipeline (validate, encode, manifest, sign, zip).              *)
(*                                                                         *)
(* Python values are modelled as follows.  A str is a TLA+ string.  None   *)
(* is the sentinel None, an attribute that was never set on an object is   *)
(* the sentinel Unset, and an argument of a wrong type (not a Barcode, not *)
(* a Location, ...) is the sentinel WrongType.  A dict is the sequence of  *)
(* its <<key, value>> pairs in insertion order, as CPython keeps it.  A    *)
(* value placed in a JSON document carries its JSON type as a tag.         *)
(***************************************************************************)
EXTENDS Integers, Sequences, FiniteSets, TLC

VARIABLES
    pass_information,   \* ApplePass.pass_information: the PassInformation object
    pass_type_identifier,
    organization_name,
    team_identifier,
    serial_number,
    description,
    attrs,              \* the optional scalar attributes of ApplePass.__init__
    _barcodes,
    _locations,
    _beacons,
    _relevant_dates,
    _files,             \* dict name -> bytes
    _hashes,            \* dict name -> hex digest
    pc,                 \* position inside create(): "idle" when no call runs
    cr,                 \* the locals of the running create() call
    steps,              \* the steps the last create() call has entered
    sink,               \* the members written to the output archive
    ret,                \* the last operation and the exception it raised
    last,               \* document, manifest and digest map of the last
                        \* assembly, kept until the pass is mutated; again
                        \* tells that it followed another with no mutation
                        \* in between
    other,              \* a second ApplePass instance of the process, as the
                        \* record of its attributes, or NoPeer; the
                        \* variables above are the instance a step runs on
    calls               \* for each thread, the add-operation it is inside
                        \* of, if any, and what its last one raised

passVars == <<pass_information, pass_type_identifier, organization_name,
              team_identifier, serial_number, description, attrs,
              _barcodes, _locations, _beacons, _relevant_dates, _files>>

vars == <<pass_information, pass_type_identifier, organization_name,
          team_identifier, serial_number, description, attrs,
          _barcodes, _locations, _beacons, _relevant_dates, _files,
          _hashes, pc, cr, steps, sink, ret, last, other, calls>>

-----------------------------------------------------------------------------
(* Python values *)

None == "<None>"
Unset == "<unset>"

\* an argument with its Python type: isinstance() reads the type
Arg(type, obj) == [type |-> type, obj |-> obj]
WrongType == Arg("object", None)
NoneValue == Arg("NoneType", None)

\* bool(v) of a str or None
Truthy(v) == v # None /\ v # ""

-----------------------------------------------------------------------------
(* dict: insertion-ordered sequence of <<key, value>> pairs *)

DictKeys(d) == {d[i][1] : i \in 1..Len(d)}

DictHas(d, k) == \E i \in 1..Len(d) : d[i][1] = k

DictGet(d, k) == d[CHOOSE i \in 1..Len(d) : d[i][1] = k][2]

\* a d[k] = v that appends a new pair even when k is already a key
DictSetAppending(d, k, v) == Append(d, <<k, v>>)

\* d[k] = v: an existing key keeps its position, a new key goes last
DictSet(d, k, v) ==
    IF DictHas(d, k)
    THEN [i \in 1..Len(d) |-> IF d[i][1] = k THEN <<k, v>> ELSE d[i]]
    ELSE Append(d, <<k, v>>)

-----------------------------------------------------------------------------
(* JSON values and json.dumps *)

JStr(s) == [t |-> "str", v |-> s]
JInt(n) == [t |-> "int", v |-> n]
JBool(b) == [t |-> "bool", v |-> b]
JNull == [t |-> "null", v |-> None]
JList(s) == [t |-> "list", v |-> s]
JDict(d) == [t |-> "dict", v |-> d]
JFloat(n) == [t |-> "float", v |-> n]

\* json.dumps of a whole float: repr() keeps the ".0"
DumpsFloat(n) == ToString(n) \o ".0"

\* a Python str or None as a JSON value
JVal(x) == IF x = None THEN JNull ELSE JStr(x)

RECURSIVE JoinItems(_)
JoinItems(s) ==
    IF Len(s) = 0 THEN ""
    ELSE IF Len(s) = 1 THEN s[1]
    ELSE s[1] \o ", " \o JoinItems(Tail(s))

\* json.dumps with the default separators (", " and ": "); the strings of
\* the model hold no character that JSON escapes
RECURSIVE Dumps(_)
Dumps(j) ==
    CASE j.t = "str" -> "\"" \o j.v \o "\""
      [] j.t = "int" -> ToString(j.v)
      [] j.t = "bool" -> IF j.v THEN "true" ELSE "false"
      [] j.t = "null" -> "null"
      [] j.t = "float" -> DumpsFloat(j.v)
      [] j.t = "list" -> "[" \o JoinItems([i \in 1..Len(j.v) |-> Dumps(j.v[i])]) \o "]"
      [] j.t = "dict" ->
           "{" \o JoinItems([i \in 1..Len(j.v) |->
                     "\"" \o j.v[i][1] \o "\": " \o Dumps(j.v[i][2])]) \o "}"

\* hashlib.sha1(data).hexdigest(): an ideal digest, one per byte string
Sha1(data) == "sha1:" \o data

\* PKCS7SignatureBuilder().set_data(data)...sign(): the detached signature
Pkcs7Sign(data) == "pkcs7:" \o data

-----------------------------------------------------------------------------
(* numbers: a float or an int argument is a tagged value; the floats of    *)
(* the model are whole numbers                                             *)

Num(n) == [t |-> "num", v |-> n]
Text(s) == [t |-> "text", v |-> s]
NoneArg == [t |-> "none", v |-> None]
\* an int beyond the range of a float, such as 10**400
Huge == [t |-> "huge", v |-> None]

\* float(x): the number itself, ValueError for a str that is no number,
\* TypeError for None, OverflowError for an int too large for a float
PyFloat(x) ==
    CASE x.t = "num" -> [exc |-> "none", v |-> x.v]
      [] x.t = "text" -> [exc |-> "ValueError", v |-> 0]
      [] x.t = "none" -> [exc |-> "TypeError", v |-> 0]
      [] x.t = "huge" -> [exc |-> "OverflowError", v |-> 0]

-----------------------------------------------------------------------------
(* constants.py: BarcodeFormat, TransitType *)

PDF417 == "PKBarcodeFormatPDF417"
QR == "PKBarcodeFormatQR"
AZTEC == "PKBarcodeFormatAztec"
CODE128 == "PKBarcodeFormatCode128"

AIR == "PKTransitTypeAir"
TRAIN == "PKTransitTypeTrain"

-----------------------------------------------------------------------------
(* barcodes.py: Barcode *)

valid_formats == {PDF417, QR, AZTEC, CODE128}

\* Barcode(message, format, encoding, alt_text): the format setter runs
\* first, then the message setter; altText is set only when alt_text is
\* not None
BarcodeInit(message, format, encoding, alt_text) ==
    IF format \notin valid_formats THEN [exc |-> "ValueError", obj |-> None]
    ELSE IF ~Truthy(message) THEN [exc |-> "ValueError", obj |-> None]
    ELSE [exc |-> "none",
          obj |-> [format |-> format, message |-> message,
                   messageEncoding |-> encoding,
                   altText |-> IF alt_text # None THEN alt_text ELSE Unset]]

\* a message setter that stores the value before it tests it
barcode_set_message_storing_first(b, value) ==
    IF ~Truthy(value) THEN [exc |-> "ValueError", obj |-> [b EXCEPT !.message = value]]
    ELSE [exc |-> "none", obj |-> [b EXCEPT !.message = value]]

\* barcode.message = value on a constructed Barcode: the exception raised
\* and the object afterwards
barcode_set_message(b, value) ==
    IF ~Truthy(value) THEN [exc |-> "ValueError", obj |-> b]
    ELSE [exc |-> "none", obj |-> [b EXCEPT !.message = value]]

\* barcode.format = value on a constructed Barcode
barcode_set_format(b, value) ==
    IF value \notin valid_formats THEN [exc |-> "ValueError", obj |-> b]
    ELSE [exc |-> "none", obj |-> [b EXCEPT !.format = value]]

\* Barcode.json_dict
BarcodeJson(b) ==
    JDict(<< <<"format", JStr(b.format)>>,
             <<"message", JStr(b.message)>>,
             <<"messageEncoding", JVal(b.messageEncoding)>> >>
          \o (IF b.altText # Unset /\ b.altText # None
              THEN << <<"altText", JStr(b.altText)>> >> ELSE << >>))

-----------------------------------------------------------------------------
(* relevant_date.py: RelevantDate *)

\* a constructor that lets a lone start_date or end_date through
RelevantDateInitNoPairCheck(date, start_date, end_date) ==
    IF Truthy(date) /\ (Truthy(start_date) \/ Truthy(end_date))
    THEN [exc |-> "ValueError", obj |-> None]
    ELSE IF ~Truthy(date) /\ ~Truthy(start_date) /\ ~Truthy(end_date)
    THEN [exc |-> "ValueError", obj |-> None]
    ELSE [exc |-> "none",
          obj |-> [date |-> date, startDate |-> start_date, endDate |-> end_date]]

\* RelevantDate(date, start_date, end_date)
RelevantDateInit(date, start_date, end_date) ==
    IF Truthy(date) /\ (Truthy(start_date) \/ Truthy(end_date))
    THEN [exc |-> "ValueError", obj |-> None]
    ELSE IF (Truthy(start_date) /\ ~Truthy(end_date))
            \/ (Truthy(end_date) /\ ~Truthy(start_date))
    THEN [exc |-> "ValueError", obj |-> None]
    ELSE IF ~Truthy(date) /\ ~Truthy(start_date)
    THEN [exc |-> "ValueError", obj |-> None]
    ELSE [exc |-> "none",
          obj |-> [date |-> date, startDate |-> start_date, endDate |-> end_date]]

-----------------------------------------------------------------------------
(* locations.py: Location, IBeacon *)

\* what "except (ValueError, TypeError)" catches
Caught(exc) == exc \in {"ValueError", "TypeError"}

\* try: float(x) except (ValueError, TypeError): default -- the value
\* stored, or the exception that escapes
FloatOr(x, default) ==
    IF PyFloat(x).exc = "none" THEN [exc |-> "none", v |-> Num(PyFloat(x).v)]
    ELSE IF Caught(PyFloat(x).exc) THEN [exc |-> "none", v |-> default]
    ELSE [exc |-> PyFloat(x).exc, v |-> default]

\* Location(latitude, longitude, altitude, relevant_text, max_distance):
\* the exception that escapes, if any, and the object built
LocationInit(latitude, longitude, altitude, relevant_text, max_distance) ==
    LET lat == FloatOr(latitude, Num(0))
        lon == FloatOr(longitude, Num(0))
        alt == IF altitude.t # "none" THEN FloatOr(altitude, Num(0))
               ELSE [exc |-> "none", v |-> NoneArg]
        dist == IF max_distance.t # "none" THEN FloatOr(max_distance, NoneArg)
                ELSE [exc |-> "none", v |-> NoneArg]
        raised == IF lat.exc # "none" THEN lat.exc
                  ELSE IF lon.exc # "none" THEN lon.exc
                  ELSE IF alt.exc # "none" THEN alt.exc
                  ELSE dist.exc
    IN  IF raised # "none" THEN [exc |-> raised, obj |-> None]
        ELSE [exc |-> "none",
              obj |-> [latitude |-> lat.v.v, longitude |-> lon.v.v,
                       altitude |-> alt.v, maxDistance |-> dist.v,
                       relevantText |-> IF Truthy(relevant_text) THEN relevant_text
                                        ELSE None]]

\* Location.json_dict
LocationJson(l) ==
    JDict(<< <<"latitude", JFloat(l.latitude)>>,
             <<"longitude", JFloat(l.longitude)>> >>
          \o (IF l.altitude.t # "none"
              THEN << <<"altitude", JFloat(l.altitude.v)>> >> ELSE << >>)
          \o (IF l.maxDistance.t # "none"
              THEN << <<"maxDistance", JFloat(l.maxDistance.v)>> >> ELSE << >>)
          \o (IF Truthy(l.relevantText)
              THEN << <<"relevantText", JStr(l.relevantText)>> >> ELSE << >>))

\* IBeacon(proximity_uuid, major, minor, relevant_text)
IBeaconInit(proximity_uuid, major, minor, relevant_text) ==
    [proximityUUID |-> proximity_uuid, major |-> major, minor |-> minor,
     relevantText |-> IF Truthy(relevant_text) THEN relevant_text ELSE None]

\* IBeacon.json_dict
IBeaconJson(b) ==
    JDict(<< <<"proximityUUID", JVal(b.proximityUUID)>> >>
          \o (IF b.major.t # "none" THEN << <<"major", JInt(b.major.v)>> >> ELSE << >>)
          \o (IF b.minor.t # "none" THEN << <<"minor", JInt(b.minor.v)>> >> ELSE << >>)
          \o (IF Truthy(b.relevantText)
              THEN << <<"relevantText", JStr(b.relevantText)>> >> ELSE << >>))

-----------------------------------------------------------------------------
(* fields.py: Field *)

\* the attributes of a Field in the order __init__ sets them
FieldAttrs == <<"key", "value", "label", "changeMessage", "textAlignment",
                "attributedValue", "dataDetectorTypes", "semantics">>

\* Field(key, value, label)
FieldInit(key, value, label) ==
    [key |-> key, value |-> value, label |-> label, changeMessage |-> None,
     textAlignment |-> None, attributedValue |-> None,
     dataDetectorTypes |-> None, semantics |-> None]

\* Field.json_dict: every attribute that is neither None nor ""; the
\* attributes of the model's fields are str or None
RECURSIVE FieldPairs(_, _)
FieldPairs(f, i) ==
    IF i > Len(FieldAttrs) THEN << >>
    ELSE (IF f[FieldAttrs[i]] = None \/ f[FieldAttrs[i]] = ""
          THEN << >>
          ELSE << <<FieldAttrs[i], JStr(f[FieldAttrs[i]])>> >>)
         \o FieldPairs(f, i + 1)

FieldJson(f) == JDict(FieldPairs(f, 1))

-----------------------------------------------------------------------------
(* pass_types.py: PassInformation and its five variants *)

PassInformationInit(jsonname, transit_type) ==
    [jsonname |-> jsonname, transit_type |-> transit_type,
     header_fields |-> << >>, primary_fields |-> << >>,
     secondary_fields |-> << >>, back_fields |-> << >>,
     auxiliary_fields |-> << >>, additional_info_fields |-> << >>]

BoardingPass(transit_type) == PassInformationInit("boardingPass", transit_type)
Coupon == PassInformationInit("coupon", Unset)
EventTicket == PassInformationInit("eventTicket", Unset)
Generic == PassInformationInit("generic", Unset)
StoreCard == PassInformationInit("storeCard", Unset)

\* the field collections with their JSON keys, in the order json_dict
\* emits them
Slots == << <<"header_fields", "headerFields">>,
            <<"primary_fields", "primaryFields">>,
            <<"secondary_fields", "secondaryFields">>,
            <<"back_fields", "backFields">>,
            <<"auxiliary_fields", "auxiliaryFields">>,
            <<"additional_info_fields", "additionalInfoFields">> >>

SlotNames == {Slots[i][1] : i \in 1..Len(Slots)}

\* an add that puts the new field in the place of one with the same key
AddFieldToReplacing(info, slot, key, value, label) ==
    IF \E i \in 1..Len(info[slot]) : info[slot][i].key = key
    THEN [info EXCEPT ![slot] = [i \in 1..Len(@) |->
                                    IF @[i].key = key THEN FieldInit(key, value, label)
                                    ELSE @[i]]]
    ELSE [info EXCEPT ![slot] = Append(@, FieldInit(key, value, label))]

\* add_header_field .. add_additional_info_field with a str key
AddFieldTo(info, slot, key, value, label) ==
    [info EXCEPT ![slot] = Append(@, FieldInit(key, value, label))]

RECURSIVE SlotPairs(_, _)
SlotPairs(info, i) ==
    IF i > Len(Slots) THEN << >>
    ELSE (IF Len(info[Slots[i][1]]) > 0
          THEN << <<Slots[i][2],
                    JList([k \in 1..Len(info[Slots[i][1]]) |->
                              FieldJson(info[Slots[i][1]][k])])>> >>
          ELSE << >>)
         \o SlotPairs(info, i + 1)

\* a json_dict that adds transitType for every variant
InfoJsonAlwaysTransit(info) ==
    JDict(SlotPairs(info, 1) \o << <<"transitType", JVal(info.transit_type)>> >>)

\* PassInformation.json_dict, and BoardingPass.json_dict which adds
\* transitType
InfoJson(info) ==
    IF info.jsonname = "boardingPass"
    THEN JDict(SlotPairs(info, 1) \o << <<"transitType", JVal(info.transit_type)>> >>)
    ELSE JDict(SlotPairs(info, 1))

-----------------------------------------------------------------------------
(* personalization.py: PersonalizationField, Personalization *)

valid_fields ==
    {"PKPassPersonalizationFieldName", "PKPassPersonalizationFieldPostalCode",
     "PKPassPersonalizationFieldEmailAddress", "PKPassPersonalizationFieldPhoneNumber"}

\* the types whose values cannot be hashed
Unhashable == {"list", "dict", "set"}

\* for field in required_fields: if field not in valid_fields: raise
\* ValueError -- the membership test hashes the element, which raises
\* TypeError for a list, a dict or a set
RECURSIVE CheckFields(_)
CheckFields(fields) ==
    IF Len(fields) = 0 THEN "none"
    ELSE IF fields[1].type \in Unhashable THEN "TypeError"
    ELSE IF fields[1].type # "str" \/ fields[1].obj \notin valid_fields
    THEN "ValueError"
    ELSE CheckFields(Tail(fields))

\* Personalization(required_fields, description, terms_and_conditions),
\* with desc for the description: the object keeps the list it was given
PersonalizationInit(required_fields, desc, terms_and_conditions) ==
    IF required_fields.type # "list" THEN [exc |-> "TypeError", obj |-> None]
    ELSE IF Len(required_fields.obj) = 0 THEN [exc |-> "ValueError", obj |-> None]
    ELSE IF CheckFields(required_fields.obj) # "none"
    THEN [exc |-> CheckFields(required_fields.obj), obj |-> None]
    ELSE [exc |-> "none",
          obj |-> [requiredPersonalizationFields |-> required_fields.obj,
                   description |-> desc,
                   termsAndConditions |-> IF Truthy(terms_and_conditions)
                                          THEN terms_and_conditions ELSE Unset]]

\* Personalization.json_dict; the elements of the list are str
PersonalizationJson(p) ==
    JDict(<< <<"requiredPersonalizationFields",
               JList([i \in 1..Len(p.requiredPersonalizationFields) |->
                         JStr(p.requiredPersonalizationFields[i].obj)])>> >>
          \o (IF Truthy(p.description)
              THEN << <<"description", JStr(p.description)>> >> ELSE << >>)
          \o (IF p.termsAndConditions # Unset
              THEN << <<"termsAndConditions", JStr(p.termsAndConditions)>> >>
              ELSE << >>))

-----------------------------------------------------------------------------
(* pass_base.py: ApplePass.json_dict *)

\* the optional scalar attributes as __init__ leaves them.  voided and
\* sharing_prohibited hold None, True or False and are kept as tagged
\* values; personalization holds None or a Personalization, also as a
\* tagged value.  nfc, semantics, upcoming_event_info,
\* associated_store_identifiers and user_info stay None in every
\* specification of this module, so json_dict emits nothing for them.
InitAttrs ==
    [format_version |-> 1, suppress_strip_shine |-> FALSE,
     background_color |-> None, foreground_color |-> None,
     label_color |-> None, logo_text |-> None,
     web_service_url |-> None, authentication_token |-> None,
     app_launch_url |-> None, expiration_date |-> None,
     voided |-> JNull, grouping_identifier |-> None,
     sharing_prohibited |-> JNull, personalization |-> NoneArg]

\* the pass as one record
Self ==
    [pass_information |-> pass_information,
     pass_type_identifier |-> pass_type_identifier,
     organization_name |-> organization_name,
     team_identifier |-> team_identifier,
     serial_number |-> serial_number, description |-> description,
     attrs |-> attrs, barcodes |-> _barcodes, locations |-> _locations,
     beacons |-> _beacons, relevant_dates |-> _relevant_dates]

legacy_formats == {PDF417, QR, AZTEC}

\* a pick of the most recently attached element instead of the first
last_element(list) == list[Len(list)]

\* self._barcodes[0], self._relevant_dates[0]
first_element(list) == list[1]

\* the legacy 'barcode' entry: the first barcode itself when its format is
\* a legacy one, otherwise Barcode(message, PDF417, altText or '',
\* messageEncoding), whose third parameter is encoding and whose fourth is
\* alt_text
LegacyBarcodeJson(first_barcode) ==
    IF first_barcode.format \in legacy_formats
    THEN BarcodeJson(first_barcode)
    ELSE BarcodeJson(BarcodeInit(first_barcode.message, PDF417,
                                 IF first_barcode.altText = Unset
                                 THEN "" ELSE first_barcode.altText,
                                 first_barcode.messageEncoding).obj)

\* one entry of 'relevantDates'
DateEntry(date_obj) ==
    (IF Truthy(date_obj.date)
     THEN << <<"date", JStr(date_obj.date)>> >> ELSE << >>)
    \o (IF Truthy(date_obj.startDate)
        THEN << <<"startDate", JStr(date_obj.startDate)>> >> ELSE << >>)
    \o (IF Truthy(date_obj.endDate)
        THEN << <<"endDate", JStr(date_obj.endDate)>> >> ELSE << >>)

\* relevant_dates_array: the non-empty entries, in order
RECURSIVE RelevantDatesArray(_)
RelevantDatesArray(dates) ==
    IF Len(dates) = 0 THEN << >>
    ELSE (IF DateEntry(dates[1]) # << >>
          THEN <<JDict(DateEntry(dates[1]))>> ELSE << >>)
         \o RelevantDatesArray(Tail(dates))

\* a legacy 'relevantDate' that falls back to the end date
LegacyRelevantDateEnd(first_date) ==
    IF Truthy(first_date.date) THEN JVal(first_date.date)
    ELSE JVal(first_date.endDate)

\* the legacy 'relevantDate' value
LegacyRelevantDate(first_date) ==
    IF Truthy(first_date.date) THEN JVal(first_date.date)
    ELSE IF Truthy(first_date.startDate) THEN JVal(first_date.startDate)
    ELSE JVal(first_date.endDate)

\* d[key] = value when value is a truthy str
StrKey(key, value) ==
    IF Truthy(value) THEN << <<key, JStr(value)>> >> ELSE << >>

\* the required keys of the canonical document
RequiredPairs(p) ==
    << <<"description", JVal(p.description)>>,
       <<"formatVersion", JInt(p.attrs.format_version)>>,
       <<"organizationName", JVal(p.organization_name)>>,
       <<"passTypeIdentifier", JVal(p.pass_type_identifier)>>,
       <<"serialNumber", JVal(p.serial_number)>>,
       <<"teamIdentifier", JVal(p.team_identifier)>>,
       <<"suppressStripShine", JBool(p.attrs.suppress_strip_shine)>>,
       <<p.pass_information.jsonname, InfoJson(p.pass_information)>> >>

\* the 'barcodes' and 'barcode' keys
BarcodePairs(p) ==
    IF Len(p.barcodes) > 0
    THEN << <<"barcodes", JList([i \in 1..Len(p.barcodes) |->
                                    BarcodeJson(p.barcodes[i])])>>,
            <<"barcode", LegacyBarcodeJson(first_element(p.barcodes))>> >>
    ELSE << >>

\* the 'relevantDates' and 'relevantDate' keys
RelevantDatePairs(p) ==
    IF Len(p.relevant_dates) > 0
    THEN (IF RelevantDatesArray(p.relevant_dates) # << >>
          THEN << <<"relevantDates", JList(RelevantDatesArray(p.relevant_dates))>> >>
          ELSE << >>)
         \o << <<"relevantDate", LegacyRelevantDate(first_element(p.relevant_dates))>> >>
    ELSE << >>

\* a 'voided' key written whenever the flag is not None
VoidedPairsWheneverSet(p) ==
    IF p.attrs.voided.t = "bool"
    THEN << <<"voided", p.attrs.voided>> >> ELSE << >>

\* the 'voided' key: if self.voided: d["voided"] = True
VoidedPairs(p) ==
    IF p.attrs.voided.t = "bool" /\ p.attrs.voided.v
    THEN << <<"voided", JBool(TRUE)>> >> ELSE << >>

\* ApplePass.json_dict as the ordered pairs of the dict it returns
JsonDictOf(p) ==
    RequiredPairs(p)
    \o BarcodePairs(p)
    \o RelevantDatePairs(p)
    \o (IF Len(p.locations) > 0
        THEN << <<"locations", JList([i \in 1..Len(p.locations) |->
                                         LocationJson(p.locations[i])])>> >>
        ELSE << >>)
    \o (IF Len(p.beacons) > 0
        THEN << <<"beacons", JList([i \in 1..Len(p.beacons) |->
                                       IBeaconJson(p.beacons[i])])>> >>
        ELSE << >>)
    \o StrKey("backgroundColor", p.attrs.background_color)
    \o StrKey("foregroundColor", p.attrs.foreground_color)
    \o StrKey("labelColor", p.attrs.label_color)
    \o StrKey("logoText", p.attrs.logo_text)
    \o (IF Truthy(p.attrs.web_service_url)
        THEN << <<"webServiceURL", JStr(p.attrs.web_service_url)>>,
                <<"authenticationToken", JVal(p.attrs.authentication_token)>> >>
        ELSE << >>)
    \o StrKey("appLaunchURL", p.attrs.app_launch_url)
    \o StrKey("expirationDate", p.attrs.expiration_date)
    \o VoidedPairs(p)
    \o StrKey("groupingIdentifier", p.attrs.grouping_identifier)
    \o (IF p.attrs.sharing_prohibited.t # "null"
        THEN << <<"sharingProhibited", p.attrs.sharing_prohibited>> >>
        ELSE << >>)
    \o (IF p.attrs.personalization.t # "none"
        THEN << <<"personalization", PersonalizationJson(p.attrs.personalization.v)>> >>
        ELSE << >>)

\* the canonical document of the pass in the current state
JsonDict == JsonDictOf(Self)

\* _create_pass_json: json.dumps(self, default=pass_handler)
PassJson == Dumps(JDict(JsonDict))

-----------------------------------------------------------------------------
(* pass_base.py: the add-operations as functions of the list and the       *)
(* argument; each returns the exception raised and the list afterwards     *)

MaxLocations == 10
MaxBeacons == 10

add_barcode(list, barcode) ==
    IF barcode.type # "Barcode" THEN [exc |-> "TypeError", list |-> list]
    ELSE [exc |-> "none", list |-> Append(list, barcode.obj)]

\* add_location that looks at the count before the type
add_location_count_first(list, location) ==
    IF Len(list) >= 10 THEN [exc |-> "ValueError", list |-> list]
    ELSE IF location.type # "Location" THEN [exc |-> "TypeError", list |-> list]
    ELSE [exc |-> "none", list |-> Append(list, location.obj)]

\* add_location whose limit check is off by one
add_location_off_by_one(list, location) ==
    IF location.type # "Location" THEN [exc |-> "TypeError", list |-> list]
    ELSE IF Len(list) > MaxLocations THEN [exc |-> "ValueError", list |-> list]
    ELSE [exc |-> "none", list |-> Append(list, location.obj)]

add_location(list, location) ==
    IF location.type # "Location" THEN [exc |-> "TypeError", list |-> list]
    ELSE IF Len(list) >= MaxLocations THEN [exc |-> "ValueError", list |-> list]
    ELSE [exc |-> "none", list |-> Append(list, location.obj)]

add_beacon(list, beacon) ==
    IF beacon.type # "IBeacon" THEN [exc |-> "TypeError", list |-> list]
    ELSE IF Len(list) >= MaxBeacons THEN [exc |-> "ValueError", list |-> list]
    ELSE [exc |-> "none", list |-> Append(list, beacon.obj)]

\* add_relevant_date that attaches a str without building a RelevantDate
add_relevant_date_raw_str(list, date) ==
    IF date.type = "str"
    THEN [exc |-> "none",
          list |-> Append(list, [date |-> date.obj, startDate |-> None,
                                 endDate |-> None])]
    ELSE IF date.type # "RelevantDate" THEN [exc |-> "TypeError", list |-> list]
    ELSE [exc |-> "none", list |-> Append(list, date.obj)]

\* add_relevant_date: a str becomes RelevantDate(date=str), whose
\* constructor may raise
add_relevant_date(list, date) ==
    IF date.type = "str"
    THEN (IF RelevantDateInit(date.obj, None, None).exc # "none"
          THEN [exc |-> RelevantDateInit(date.obj, None, None).exc, list |-> list]
          ELSE [exc |-> "none",
                list |-> Append(list, RelevantDateInit(date.obj, None, None).obj)])
    ELSE IF date.type # "RelevantDate" THEN [exc |-> "TypeError", list |-> list]
    ELSE [exc |-> "none", list |-> Append(list, date.obj)]

\* what the first add_location of the loop that raises, raises
RECURSIVE first_failure(_, _)
first_failure(list, value) ==
    IF Len(value) = 0 THEN "none"
    ELSE IF add_location(list, value[1]).exc # "none"
    THEN add_location(list, value[1]).exc
    ELSE first_failure(add_location(list, value[1]).list, Tail(value))

RECURSIVE attach_all(_, _)
attach_all(list, value) ==
    IF Len(value) = 0 THEN list
    ELSE attach_all(Append(list, value[1].obj), Tail(value))

\* an assignment of a list that attaches all of its elements or none
add_locations_atomic(list, value) ==
    IF first_failure(list, value) # "none"
    THEN [exc |-> first_failure(list, value), list |-> list]
    ELSE [exc |-> "none", list |-> attach_all(list, value)]

\* __setattr__('locations', value) with a list: add_location on each
\* element in order, stopping at the first that raises
RECURSIVE add_locations(_, _)
add_locations(list, value) ==
    IF Len(value) = 0 THEN [exc |-> "none", list |-> list]
    ELSE IF add_location(list, value[1]).exc # "none"
    THEN add_location(list, value[1])
    ELSE add_locations(add_location(list, value[1]).list, Tail(value))

\* __setattr__('ibeacons', value) with a list
RECURSIVE add_beacons(_, _)
add_beacons(list, value) ==
    IF Len(value) = 0 THEN [exc |-> "none", list |-> list]
    ELSE IF add_beacon(list, value[1]).exc # "none"
    THEN add_beacon(list, value[1])
    ELSE add_beacons(add_beacon(list, value[1]).list, Tail(value))

-----------------------------------------------------------------------------
(* the state after ApplePass(pass_information, ...) *)

Ret(op, exc) == [op |-> op, exc |-> exc, args |-> << >>, obj |-> None]

NoLast == [doc |-> None, manifest |-> None, hashes |-> << >>, again |-> FALSE]
NoLocals == [pass_json |-> None, manifest |-> None, signature |-> None]

\* the attributes ApplePass.__init__ gives a new instance
FreshPass(info, pti, org, team) ==
    [pass_information |-> info, pass_type_identifier |-> pti,
     organization_name |-> org, team_identifier |-> team,
     serial_number |-> "", description |-> "", attrs |-> InitAttrs,
     _barcodes |-> << >>, _locations |-> << >>, _beacons |-> << >>,
     _relevant_dates |-> << >>, _files |-> << >>, _hashes |-> << >>,
     pc |-> "idle", cr |-> NoLocals, steps |-> << >>, sink |-> << >>,
     ret |-> Ret("__init__", "none"), last |-> NoLast]

\* ApplePass.__init__
ApplePassInit(info, pti, org, team) ==
    /\ pass_information = info
    /\ pass_type_identifier = pti
    /\ organization_name = org
    /\ team_identifier = team
    /\ serial_number = FreshPass(info, pti, org, team).serial_number
    /\ description = FreshPass(info, pti, org, team).description
    /\ attrs = FreshPass(info, pti, org, team).attrs
    /\ _barcodes = FreshPass(info, pti, org, team)._barcodes
    /\ _locations = FreshPass(info, pti, org, team)._locations
    /\ _beacons = FreshPass(info, pti, org, team)._beacons
    /\ _relevant_dates = FreshPass(info, pti, org, team)._relevant_dates
    /\ _files = FreshPass(info, pti, org, team)._files
    /\ _hashes = FreshPass(info, pti, org, team)._hashes
    /\ pc = FreshPass(info, pti, org, team).pc
    /\ cr = FreshPass(info, pti, org, team).cr
    /\ steps = FreshPass(info, pti, org, team).steps
    /\ sink = FreshPass(info, pti, org, team).sink
    /\ ret = FreshPass(info, pti, org, team).ret
    /\ last = FreshPass(info, pti, org, team).last

\* no second instance
NoPeer == [pc |-> "absent"]

\* the threads that call methods of the pass
NThreads == 2
Threads == 1..NThreads

\* a thread that is not inside an add-operation
IdleCall == [pc |-> "idle", op |-> None, arg |-> NoneValue, exc |-> "none"]
NoCalls == [t \in Threads |-> IdleCall]

\* the process holds one ApplePass
OnePass(info, pti, org, team) ==
    /\ ApplePassInit(info, pti, org, team)
    /\ other = NoPeer
    /\ calls = NoCalls

\* what an operation outside create() leaves alone
createVars == <<_hashes, pc, cr, steps, sink>>

\* the remembered assembly is dropped when the pass changes
Mutated(changed) == last' = IF changed THEN NoLast ELSE last

-----------------------------------------------------------------------------
(* operations on the pass; none runs while create() is running *)

\* apple_pass.serial_number = value (the normal branch of __setattr__)
SetSerialNumber(value) ==
    /\ pc = "idle"
    /\ serial_number' = value
    /\ ret' = Ret("serial_number", "none")
    /\ Mutated(value # serial_number)
    /\ UNCHANGED <<pass_information, pass_type_identifier, organization_name,
                   team_identifier, description, attrs, _barcodes, _locations,
                   _beacons, _relevant_dates, _files>>
    /\ UNCHANGED createVars
    /\ UNCHANGED <<other, calls>>

\* apple_pass.description = value
SetDescription(value) ==
    /\ pc = "idle"
    /\ description' = value
    /\ ret' = Ret("description", "none")
    /\ Mutated(value # description)
    /\ UNCHANGED <<pass_information, pass_type_identifier, organization_name,
                   team_identifier, serial_number, attrs, _barcodes, _locations,
                   _beacons, _relevant_dates, _files>>
    /\ UNCHANGED createVars
    /\ UNCHANGED <<other, calls>>

\* the add-operations; ret.obj or ret.args remembers the argument
AddBarcode(barcode) ==
    /\ pc = "idle"
    /\ _barcodes' = add_barcode(_barcodes, barcode).list
    /\ ret' = [Ret("add_barcode", add_barcode(_barcodes, barcode).exc)
                 EXCEPT !.obj = barcode.type]
    /\ Mutated(_barcodes' # _barcodes)
    /\ UNCHANGED <<pass_information, pass_type_identifier, organization_name,
                   team_identifier, serial_number, description, attrs,
                   _locations, _beacons, _relevant_dates, _files>>
    /\ UNCHANGED createVars
    /\ UNCHANGED <<other, calls>>

AddLocation(location) ==
    /\ pc = "idle"
    /\ _locations' = add_location(_locations, location).list
    /\ ret' = [Ret("add_location", add_location(_locations, location).exc)
                 EXCEPT !.args = <<location.type>>]
    /\ Mutated(_locations' # _locations)
    /\ UNCHANGED <<pass_information, pass_type_identifier, organization_name,
                   team_identifier, serial_number, description, attrs,
                   _barcodes, _beacons, _relevant_dates, _files>>
    /\ UNCHANGED createVars
    /\ UNCHANGED <<other, calls>>

AddBeacon(beacon) ==
    /\ pc = "idle"
    /\ _beacons' = add_beacon(_beacons, beacon).list
    /\ ret' = [Ret("add_beacon", add_beacon(_beacons, beacon).exc)
                 EXCEPT !.args = <<beacon.type>>]
    /\ Mutated(_beacons' # _beacons)
    /\ UNCHANGED <<pass_information, pass_type_identifier, organization_name,
                   team_identifier, serial_number, description, attrs,
                   _barcodes, _locations, _relevant_dates, _files>>
    /\ UNCHANGED createVars
    /\ UNCHANGED <<other, calls>>

AddRelevantDate(date) ==
    /\ pc = "idle"
    /\ _relevant_dates' = add_relevant_date(_relevant_dates, date).list
    /\ ret' = [Ret("add_relevant_date", add_relevant_date(_relevant_dates, date).exc)
                 EXCEPT !.args = IF date.type = "str" THEN <<date.obj>> ELSE << >>,
                        !.obj = date.type]
    /\ Mutated(_relevant_dates' # _relevant_dates)
    /\ UNCHANGED <<pass_information, pass_type_identifier, organization_name,
                   team_identifier, serial_number, description, attrs,
                   _barcodes, _locations, _beacons, _files>>
    /\ UNCHANGED createVars
    /\ UNCHANGED <<other, calls>>

\* add_file(name, fd): self._files[name] = fd.read()
AddFile(name, data) ==
    /\ pc = "idle"
    /\ _files' = DictSet(_files, name, data)
    /\ ret' = Ret("add_file", "none")
    /\ Mutated(_files' # _files)
    /\ UNCHANGED <<pass_information, pass_type_identifier, organization_name,
                   team_identifier, serial_number, description, attrs,
                   _barcodes, _locations, _beacons, _relevant_dates>>
    /\ UNCHANGED createVars
    /\ UNCHANGED <<other, calls>>

-----------------------------------------------------------------------------
(* __setattr__: assignments to the legacy names, and the constructors a    *)
(* caller runs before an add-operation                                     *)

\* apple_pass.barcode = value; ret.obj remembers the value assigned
SetBarcode(value) ==
    /\ pc = "idle"
    /\ IF value.type = "NoneType"
       THEN /\ UNCHANGED _barcodes
            /\ ret' = [Ret("barcode", "none") EXCEPT !.obj = value]
       ELSE /\ _barcodes' = add_barcode(_barcodes, value).list
            /\ ret' = [Ret("barcode", add_barcode(_barcodes, value).exc)
                         EXCEPT !.obj = value]
    /\ Mutated(_barcodes' # _barcodes)
    /\ UNCHANGED <<pass_information, pass_type_identifier, organization_name,
                   team_identifier, serial_number, description, attrs,
                   _locations, _beacons, _relevant_dates, _files>>
    /\ UNCHANGED createVars
    /\ UNCHANGED <<other, calls>>

\* an assignment to locations that replaces the list
set_locations_replacing(list, value) ==
    IF value.type = "NoneType" THEN [exc |-> "none", list |-> list]
    ELSE IF value.type = "list" THEN add_locations(<< >>, value.obj)
    ELSE add_location(<< >>, value)

\* the result of apple_pass.locations = value
set_locations(list, value) ==
    IF value.type = "NoneType" THEN [exc |-> "none", list |-> list]
    ELSE IF value.type = "list" THEN add_locations(list, value.obj)
    ELSE add_location(list, value)

\* the result of apple_pass.ibeacons = value
set_ibeacons(list, value) ==
    IF value.type = "NoneType" THEN [exc |-> "none", list |-> list]
    ELSE IF value.type = "list" THEN add_beacons(list, value.obj)
    ELSE add_beacon(list, value)

\* apple_pass.locations = value
SetLocations(value) ==
    /\ pc = "idle"
    /\ _locations' = set_locations(_locations, value).list
    /\ ret' = [Ret("locations", set_locations(_locations, value).exc)
                 EXCEPT !.obj = value]
    /\ Mutated(_locations' # _locations)
    /\ UNCHANGED <<pass_information, pass_type_identifier, organization_name,
                   team_identifier, serial_number, description, attrs,
                   _barcodes, _beacons, _relevant_dates, _files>>
    /\ UNCHANGED createVars
    /\ UNCHANGED <<other, calls>>

\* apple_pass.ibeacons = value
SetIbeacons(value) ==
    /\ pc = "idle"
    /\ _beacons' = set_ibeacons(_beacons, value).list
    /\ ret' = [Ret("ibeacons", set_ibeacons(_beacons, value).exc)
                 EXCEPT !.obj = value]
    /\ Mutated(_beacons' # _beacons)
    /\ UNCHANGED <<pass_information, pass_type_identifier, organization_name,
                   team_identifier, serial_number, description, attrs,
                   _barcodes, _locations, _relevant_dates, _files>>
    /\ UNCHANGED createVars
    /\ UNCHANGED <<other, calls>>

\* apple_pass.relevant_date = value
SetRelevantDate(value) ==
    /\ pc = "idle"
    /\ IF value.type = "NoneType"
       THEN /\ UNCHANGED _relevant_dates
            /\ ret' = [Ret("relevant_date", "none") EXCEPT !.obj = value]
       ELSE /\ _relevant_dates' = add_relevant_date(_relevant_dates, value).list
            /\ ret' = [Ret("relevant_date",
                           add_relevant_date(_relevant_dates, value).exc)
                         EXCEPT !.args = IF value.type = "str"
                                         THEN <<value.obj>> ELSE << >>,
                                !.obj = value]
    /\ Mutated(_relevant_dates' # _relevant_dates)
    /\ UNCHANGED <<pass_information, pass_type_identifier, organization_name,
                   team_identifier, serial_number, description, attrs,
                   _barcodes, _locations, _beacons, _files>>
    /\ UNCHANGED createVars
    /\ UNCHANGED <<other, calls>>

\* super().__setattr__(name, value): the attribute is stored on the pass,
\* created if the pass has none of that name
StoreAttr(name, value) ==
    /\ pc = "idle"
    /\ attrs' = [n \in DOMAIN attrs \cup {name} |->
                    IF n = name THEN value.obj ELSE attrs[n]]
    /\ ret' = [Ret(name, "none") EXCEPT !.obj = value]
    /\ Mutated(TRUE)
    /\ UNCHANGED <<pass_information, pass_type_identifier, organization_name,
                   team_identifier, serial_number, description, _barcodes,
                   _locations, _beacons, _relevant_dates, _files>>
    /\ UNCHANGED createVars
    /\ UNCHANGED <<other, calls>>

\* apple_pass.<name> = value: __setattr__ hands the four legacy names to
\* the add-operations and returns; every other name is stored
SetAttr(name, value) ==
    IF name = "barcode" THEN SetBarcode(value)
    ELSE IF name = "locations" THEN SetLocations(value)
    ELSE IF name = "ibeacons" THEN SetIbeacons(value)
    ELSE IF name = "relevant_date" THEN SetRelevantDate(value)
    ELSE StoreAttr(name, value)

\* RelevantDate(date, start_date, end_date), run by the caller: the pass
\* is not touched
ConstructRelevantDate(date, start_date, end_date) ==
    /\ pc = "idle"
    /\ ret' = [op |-> "RelevantDate",
               exc |-> RelevantDateInit(date, start_date, end_date).exc,
               args |-> <<date, start_date, end_date>>,
               obj |-> RelevantDateInit(date, start_date, end_date).obj]
    /\ UNCHANGED last
    /\ UNCHANGED passVars
    /\ UNCHANGED createVars
    /\ UNCHANGED <<other, calls>>

\* pass_information.add_<slot>(key, value, label) with a str key; the
\* call returns the Field it made
AddField(slot, key, value, label) ==
    /\ pc = "idle"
    /\ pass_information' = AddFieldTo(pass_information, slot, key, value, label)
    /\ ret' = [Ret("add_field", "none") EXCEPT !.args = <<slot, key>>,
                                               !.obj = FieldInit(key, value, label)]
    /\ Mutated(TRUE)
    /\ UNCHANGED <<pass_type_identifier, organization_name,
                   team_identifier, serial_number, description, attrs,
                   _barcodes, _locations, _beacons, _relevant_dates, _files>>
    /\ UNCHANGED createVars
    /\ UNCHANGED <<other, calls>>

-----------------------------------------------------------------------------
(* pass_base.py: create() and its five steps *)

\* a loop that keeps the digest an earlier assembly stored for a name
RECURSIVE HashFilesKeepOld(_, _)
HashFilesKeepOld(hashes, files) ==
    IF Len(files) = 0 THEN hashes
    ELSE IF DictHas(hashes, files[1][1]) THEN HashFilesKeepOld(hashes, Tail(files))
    ELSE HashFilesKeepOld(DictSet(hashes, files[1][1], Sha1(files[1][2])), Tail(files))

\* the loop of _create_manifest over self._files.items()
RECURSIVE HashFiles(_, _)
HashFiles(hashes, files) ==
    IF Len(files) = 0 THEN hashes
    ELSE HashFiles(DictSet(hashes, files[1][1], Sha1(files[1][2])), Tail(files))

\* a _create_manifest that adds an entry on every call instead of setting it
ManifestHashesAppending(hashes, pass_json, files) ==
    DictSetAppending(hashes, "pass.json", Sha1(pass_json)) \o
        [i \in 1..Len(files) |-> <<files[i][1], Sha1(files[i][2])>>]

\* self._hashes after _create_manifest(pass_json)
ManifestHashes(hashes, pass_json, files) ==
    HashFiles(DictSet(hashes, "pass.json", Sha1(pass_json)), files)

\* json.dumps(self._hashes)
ManifestJson(hashes) ==
    Dumps(JDict([i \in 1..Len(hashes) |-> <<hashes[i][1], JStr(hashes[i][2])>>]))

\* the members _create_zip writes, in order
ZipMembers(pass_json, manifest, signature, files) ==
    << <<"signature", signature>>, <<"manifest.json", manifest>>,
       <<"pass.json", pass_json>> >> \o files

\* a validation that forgets the description
RequiredFieldsMissingSerialOnly == ~Truthy(serial_number)

\* the validation at the head of create()
RequiredFieldsMissing == ~Truthy(serial_number) \/ ~Truthy(description)

\* create() is entered: the required fields are validated
CreateValidate ==
    /\ pc = "idle"
    /\ steps' = <<"validate">>
    /\ IF RequiredFieldsMissing
       THEN /\ ret' = Ret("create", "ValueError")
            /\ UNCHANGED <<pc, cr>>
       ELSE /\ ret' = Ret("create", "none")
            /\ pc' = "encode"
            /\ cr' = NoLocals
    /\ UNCHANGED <<_hashes, sink, last>>
    /\ UNCHANGED passVars
    /\ UNCHANGED <<other, calls>>

\* pass_json = self._create_pass_json()
CreateEncode ==
    /\ pc = "encode"
    /\ cr' = [cr EXCEPT !.pass_json = PassJson]
    /\ steps' = Append(steps, "encode")
    /\ pc' = "manifest"
    /\ UNCHANGED <<_hashes, sink, ret, last>>
    /\ UNCHANGED passVars
    /\ UNCHANGED <<other, calls>>

\* a digest map that is one dict of the class, shared by the instances:
\* the entries the other instance wrote are in it
RECURSIVE ClassLevelHashes(_, _)
ClassLevelHashes(own, peer) ==
    IF Len(peer) = 0 THEN own
    ELSE ClassLevelHashes(DictSet(own, peer[1][1], peer[1][2]), Tail(peer))

\* self._hashes: the dict that __init__ made for this instance, whatever
\* the dict of another instance holds
OwnHashes(own, peer) == own

\* the digest map of the other instance, if there is one
PeerHashes == IF other.pc = "absent" THEN << >> ELSE other._hashes

\* manifest = self._create_manifest(pass_json)
CreateManifest ==
    /\ pc = "manifest"
    /\ _hashes' = ManifestHashes(OwnHashes(_hashes, PeerHashes), cr.pass_json, _files)
    /\ cr' = [cr EXCEPT !.manifest = ManifestJson(_hashes')]
    /\ last' = [doc |-> cr.pass_json, manifest |-> cr'.manifest,
                 hashes |-> _hashes', again |-> last.doc # None]
    /\ steps' = Append(steps, "manifest")
    /\ pc' = "sign"
    /\ UNCHANGED <<sink, ret>>
    /\ UNCHANGED passVars
    /\ UNCHANGED <<other, calls>>

\* a create() that opens the archive before signing: a failure leaves an
\* archive without signature in the sink
CreateSignArchiveFirst(outcome) ==
    /\ pc = "sign"
    /\ steps' = Append(steps, "sign")
    /\ IF outcome = "none"
       THEN /\ cr' = [cr EXCEPT !.signature = Pkcs7Sign(cr.manifest)]
            /\ pc' = "zip"
            /\ UNCHANGED <<ret, sink>>
       ELSE /\ ret' = Ret("create", outcome)
            /\ pc' = "idle"
            /\ cr' = NoLocals
            /\ sink' = << <<"manifest.json", cr.manifest>>,
                          <<"pass.json", cr.pass_json>> >>
    /\ UNCHANGED <<_hashes, last>>
    /\ UNCHANGED passVars
    /\ UNCHANGED <<other, calls>>

\* a create() that gives the signer the document instead of the manifest
CreateSignDocument(outcome) ==
    /\ pc = "sign"
    /\ steps' = Append(steps, "sign")
    /\ IF outcome = "none"
       THEN /\ cr' = [cr EXCEPT !.signature = Pkcs7Sign(cr.pass_json)]
            /\ pc' = "zip"
            /\ UNCHANGED ret
       ELSE /\ ret' = Ret("create", outcome)
            /\ pc' = "idle"
            /\ cr' = NoLocals
    /\ UNCHANGED <<_hashes, sink, last>>
    /\ UNCHANGED passVars
    /\ UNCHANGED <<other, calls>>

\* signature = self._create_signature_crypto(manifest, ...): reading or
\* parsing the credentials, or signing, may raise
CreateSign(outcome) ==
    /\ pc = "sign"
    /\ steps' = Append(steps, "sign")
    /\ IF outcome = "none"
       THEN /\ cr' = [cr EXCEPT !.signature = Pkcs7Sign(cr.manifest)]
            /\ pc' = "zip"
            /\ UNCHANGED ret
       ELSE /\ ret' = Ret("create", outcome)
            /\ pc' = "idle"
            /\ cr' = NoLocals
    /\ UNCHANGED <<_hashes, sink, last>>
    /\ UNCHANGED passVars
    /\ UNCHANGED <<other, calls>>

\* an archive step that signs the manifest once more before writing
CreateZipSigningAgain ==
    /\ pc = "zip"
    /\ sink' = ZipMembers(cr.pass_json, cr.manifest, cr.signature, _files)
    /\ steps' = steps \o <<"sign", "zip">>
    /\ pc' = "idle"
    /\ ret' = Ret("create", "none")
    /\ cr' = NoLocals
    /\ UNCHANGED <<_hashes, last>>
    /\ UNCHANGED passVars
    /\ UNCHANGED <<other, calls>>

\* self._create_zip(pass_json, manifest, signature, zip_file); return:
\* the locals of the call are gone
CreateZip ==
    /\ pc = "zip"
    /\ sink' = ZipMembers(cr.pass_json, cr.manifest, cr.signature, _files)
    /\ steps' = Append(steps, "zip")
    /\ pc' = "idle"
    /\ ret' = Ret("create", "none")
    /\ cr' = NoLocals
    /\ UNCHANGED <<_hashes, last>>
    /\ UNCHANGED passVars
    /\ UNCHANGED <<other, calls>>

SignOutcomes == {"none", "OSError", "ValueError"}

-----------------------------------------------------------------------------
(* Spec: the assembly pipeline on a pass with assets, barcodes and dates *)

MaxBarcodes == 1
MaxDates == 1

SerialValues == {"", "SN-1"}
DescriptionValues == {"", "A pass"}
FileNames == {"icon.png", "pass.json"}
FileData == {"PNG-A", "PNG-B"}

PipelineBarcodes ==
    {Arg("Barcode", BarcodeInit("m2", CODE128, "utf-8", "alt").obj)}

PipelineDates ==
    {Arg("RelevantDate", RelevantDateInit(None, "d1", "d2").obj)}

Init ==
    OnePass(Coupon, "pass.com.example", "Example Corp", "TEAM123456")

Next ==
    \/ \E v \in SerialValues : SetSerialNumber(v)
    \/ \E v \in DescriptionValues : SetDescription(v)
    \/ \E n \in FileNames, d \in FileData : AddFile(n, d)
    \/ \E b \in PipelineBarcodes : Len(_barcodes) < MaxBarcodes /\ AddBarcode(b)
    \/ \E d \in PipelineDates : Len(_relevant_dates) < MaxDates /\ AddRelevantDate(d)
    \/ CreateValidate
    \/ CreateEncode
    \/ CreateManifest
    \/ \E o \in SignOutcomes : CreateSign(o)
    \/ CreateZip

Spec == Init /\ [][Next]_vars

-----------------------------------------------------------------------------
(* SpecBarcodes: every barcode the constructor can build, attached by      *)
(* add_barcode or by the legacy assignment                                 *)

MaxBarcodeList == 2

MessageArgs == {None, "", "m1"}
FormatArgs == valid_formats \cup {"PKBarcodeFormatEAN13"}
EncodingArgs == {"iso-8859-1", "utf-8"}
AltTextArgs == {None, "", "alt"}

\* the Barcode objects a caller can construct
BarcodeObjects ==
    {BarcodeInit(m, f, e, a).obj :
        <<m, f, e, a>> \in {x \in MessageArgs \X FormatArgs \X EncodingArgs \X AltTextArgs :
                               BarcodeInit(x[1], x[2], x[3], x[4]).exc = "none"}}

BarcodeArgs == {Arg("Barcode", b) : b \in BarcodeObjects} \cup {WrongType}

InitBarcodes ==
    OnePass(Coupon, "pass.com.example", "Example Corp", "TEAM123456")

NextBarcodes ==
    \/ \E b \in BarcodeArgs : Len(_barcodes) < MaxBarcodeList /\ AddBarcode(b)
    \/ \E v \in BarcodeArgs \cup {NoneValue} :
           Len(_barcodes) < MaxBarcodeList /\ SetBarcode(v)

SpecBarcodes == InitBarcodes /\ [][NextBarcodes]_vars

-----------------------------------------------------------------------------
(* SpecDates: the relevant dates attached by add_relevant_date or by the   *)
(* legacy assignment, from every RelevantDate the constructor can build    *)

MaxDateList == 2

DateValues == {None, "", "d1", "d2"}

\* the RelevantDate objects a caller can construct
RelevantDateObjects ==
    {RelevantDateInit(x[1], x[2], x[3]).obj :
        x \in {y \in DateValues \X DateValues \X DateValues :
                  RelevantDateInit(y[1], y[2], y[3]).exc = "none"}}

DateArgs ==
    {Arg("RelevantDate", o) : o \in RelevantDateObjects}
    \cup {Arg("str", v) : v \in DateValues \ {None}}
    \cup {WrongType}

InitDates ==
    OnePass(Coupon, "pass.com.example", "Example Corp", "TEAM123456")

NextDates ==
    \/ \E x \in DateArgs : Len(_relevant_dates) < MaxDateList /\ AddRelevantDate(x)
    \/ \E x \in DateArgs \cup {NoneValue} :
           Len(_relevant_dates) < MaxDateList /\ SetRelevantDate(x)

SpecDates == InitDates /\ [][NextDates]_vars

-----------------------------------------------------------------------------
(* SpecRelevantDate: the RelevantDate constructor on every combination of  *)
(* its three arguments                                                     *)

CtorDateValues == {None, "", "d1", "d2", "d3"}

InitRelevantDate ==
    OnePass(Coupon, "pass.com.example", "Example Corp", "TEAM123456")

NextRelevantDate ==
    \E d \in CtorDateValues, st \in CtorDateValues, e \in CtorDateValues :
        ConstructRelevantDate(d, st, e)

SpecRelevantDate == InitRelevantDate /\ [][NextRelevantDate]_vars

-----------------------------------------------------------------------------
(* SpecRelevance: locations and beacons attached by the add-operations and *)
(* by the legacy assignments of a value or of a list                       *)

MaxAssign == 2

LocationObjects ==
    {LocationInit(Num(37), Num(-122), Num(10), "Store", NoneArg).obj}

BeaconObjects ==
    {IBeaconInit("E2C56DB5-DFFB-48D2-B060-D0F5A71096E0", Num(1), NoneArg, None)}

LocationArgs == {Arg("Location", l) : l \in LocationObjects} \cup {WrongType}
BeaconArgs == {Arg("IBeacon", b) : b \in BeaconObjects} \cup {WrongType}

\* the lists of at most MaxAssign elements
RECURSIVE ListsOf(_, _)
ListsOf(S, n) ==
    IF n = 0 THEN {<< >>}
    ELSE ListsOf(S, n - 1) \cup
         {Append(l, x) : l \in {m \in ListsOf(S, n - 1) : Len(m) = n - 1}, x \in S}

LocationValues ==
    LocationArgs \cup {NoneValue}
    \cup {Arg("list", l) : l \in ListsOf(LocationArgs, MaxAssign)}

BeaconValues ==
    BeaconArgs \cup {NoneValue}
    \cup {Arg("list", l) : l \in ListsOf(BeaconArgs, MaxAssign)}

InitRelevance ==
    OnePass(Coupon, "pass.com.example", "Example Corp", "TEAM123456")

NextRelevance ==
    \/ \E l \in LocationArgs : AddLocation(l)
    \/ \E b \in BeaconArgs : AddBeacon(b)
    \/ \E v \in LocationValues : SetLocations(v)
    \/ \E v \in BeaconValues : SetIbeacons(v)

SpecRelevance == InitRelevance /\ [][NextRelevance]_vars

-----------------------------------------------------------------------------
(* SpecInfo: the five variants of PassInformation with fields added to     *)
(* their collections, under a pass that also receives barcodes and dates   *)

MaxFields == 2

InfoObjects ==
    {BoardingPass(AIR), BoardingPass(TRAIN), Coupon, EventTicket, Generic, StoreCard}

InitInfo ==
    \E info \in InfoObjects :
        OnePass(info, "pass.com.example", "Example Corp", "TEAM123456")

FieldCount ==
    Len(pass_information.header_fields) + Len(pass_information.primary_fields)
    + Len(pass_information.secondary_fields) + Len(pass_information.back_fields)
    + Len(pass_information.auxiliary_fields)
    + Len(pass_information.additional_info_fields)

NextInfo ==
    \/ \E slot \in SlotNames :
           FieldCount < MaxFields /\ AddField(slot, "gate", "A23", "Gate")
    \/ \E v \in SerialValues : SetSerialNumber(v)
    \/ \E v \in DescriptionValues : SetDescription(v)
    \/ \E b \in PipelineBarcodes : Len(_barcodes) < MaxBarcodes /\ AddBarcode(b)
    \/ \E d \in PipelineDates : Len(_relevant_dates) < MaxDates /\ AddRelevantDate(d)

SpecInfo == InitInfo /\ [][NextInfo]_vars

-----------------------------------------------------------------------------
(* SpecAttrs: the optional scalar attributes, assigned through the normal  *)
(* branch of __setattr__, on a pass that also receives barcodes            *)

\* apple_pass.<name> = value for an attribute that holds a str or None
SetStrAttr(name, value) ==
    /\ pc = "idle"
    /\ attrs' = [attrs EXCEPT ![name] = value]
    /\ ret' = Ret(name, "none")
    /\ Mutated(value # attrs[name])
    /\ UNCHANGED <<pass_information, pass_type_identifier, organization_name,
                   team_identifier, serial_number, description, _barcodes,
                   _locations, _beacons, _relevant_dates, _files>>
    /\ UNCHANGED createVars
    /\ UNCHANGED <<other, calls>>

\* apple_pass.<name> = value for voided and sharing_prohibited, which hold
\* None, True or False
SetFlagAttr(name, value) ==
    /\ pc = "idle"
    /\ attrs' = [attrs EXCEPT ![name] = value]
    /\ ret' = Ret(name, "none")
    /\ Mutated(value.t # attrs[name].t \/ value.v # attrs[name].v)
    /\ UNCHANGED <<pass_information, pass_type_identifier, organization_name,
                   team_identifier, serial_number, description, _barcodes,
                   _locations, _beacons, _relevant_dates, _files>>
    /\ UNCHANGED createVars
    /\ UNCHANGED <<other, calls>>

StrAttrNames == {"web_service_url", "authentication_token", "logo_text"}
FlagAttrNames == {"voided", "sharing_prohibited"}
StrAttrValues == {None, "", "value"}

InitAttrsSpec ==
    OnePass(Coupon, "pass.com.example", "Example Corp", "TEAM123456")

NextAttrs ==
    \/ \E n \in StrAttrNames, v \in StrAttrValues : SetStrAttr(n, v)
    \/ \E n \in FlagAttrNames : SetFlagAttr(n, JNull)
    \/ \E n \in FlagAttrNames, b \in BOOLEAN : SetFlagAttr(n, JBool(b))
    \/ \E b \in PipelineBarcodes : Len(_barcodes) < MaxBarcodes /\ AddBarcode(b)

SpecAttrs == InitAttrsSpec /\ [][NextAttrs]_vars

-----------------------------------------------------------------------------
(* SpecLocation: Location objects built from every kind of coordinate      *)
(* argument and attached to a pass                                         *)

MaxLocationList == 1

\* Location(latitude, longitude, altitude), run by the caller: the pass is
\* not touched
ConstructLocation(latitude, longitude, altitude) ==
    /\ pc = "idle"
    /\ ret' = [op |-> "Location",
               exc |-> LocationInit(latitude, longitude, altitude, None, NoneArg).exc,
               args |-> <<latitude, longitude, altitude>>,
               obj |-> LocationInit(latitude, longitude, altitude, None, NoneArg).obj]
    /\ UNCHANGED last
    /\ UNCHANGED passVars
    /\ UNCHANGED createVars
    /\ UNCHANGED <<other, calls>>

LatitudeNumbers == {90, 91, -91}
LongitudeNumbers == {-180, 181}
AltitudeNumbers == {10}

\* a str that is no number, None, and an int too large for a float
NonNumbers == {"text", "none", "huge"}
NonNumber(kind) ==
    CASE kind = "text" -> Text("north")
      [] kind = "none" -> NoneArg
      [] kind = "huge" -> Huge

InitLocation ==
    OnePass(Coupon, "pass.com.example", "Example Corp", "TEAM123456")

NextLocation ==
    \/ \E lat \in LatitudeNumbers, lon \in LongitudeNumbers :
           \/ ConstructLocation(Num(lat), Num(lon), NoneArg)
           \/ \E alt \in AltitudeNumbers : ConstructLocation(Num(lat), Num(lon), Num(alt))
    \/ \E lat \in LatitudeNumbers, k \in NonNumbers :
           ConstructLocation(Num(lat), NonNumber(k), NoneArg)
    \/ \E k \in NonNumbers, lon \in LongitudeNumbers :
           ConstructLocation(NonNumber(k), Num(lon), NoneArg)
    \/ \E k1 \in NonNumbers, k2 \in NonNumbers :
           ConstructLocation(NonNumber(k1), NonNumber(k2), NoneArg)
    \/ /\ ret.op = "Location"
       /\ ret.exc = "none"
       /\ Len(_locations) < MaxLocationList
       /\ AddLocation(Arg("Location", ret.obj))

SpecLocation == InitLocation /\ [][NextLocation]_vars

-----------------------------------------------------------------------------
(* SpecLegacy: assignments to the four legacy names and to other names,    *)
(* interleaved with the add-operations                                     *)

LegacyNames == {"barcode", "locations", "ibeacons", "relevant_date"}
OtherNames == {"custom"}

MaxLegacyList == 2

LegacyDateArgs ==
    {Arg("str", "d1"), Arg("RelevantDate", RelevantDateInit("d1", None, None).obj)}

\* one element, a list of two, a list with an element of another type
LegacyListValues(args, element) ==
    args \cup {Arg("list", <<element, element>>), Arg("list", <<element, WrongType>>),
               NoneValue}

\* the values a caller assigns to name
ValuesFor(name) ==
    IF name = "barcode" THEN PipelineBarcodes \cup {NoneValue, WrongType}
    ELSE IF name = "locations"
    THEN LegacyListValues(LocationArgs, CHOOSE l \in LocationArgs : l.type = "Location")
    ELSE IF name = "ibeacons"
    THEN LegacyListValues(BeaconArgs, CHOOSE b \in BeaconArgs : b.type = "IBeacon")
    ELSE IF name = "relevant_date" THEN LegacyDateArgs \cup {NoneValue, WrongType}
    ELSE {Arg("str", "text"), NoneValue}

InitLegacy ==
    OnePass(Coupon, "pass.com.example", "Example Corp", "TEAM123456")

NextLegacy ==
    \/ \E name \in LegacyNames \cup OtherNames :
           \E value \in ValuesFor(name) :
               /\ Len(_barcodes) < MaxLegacyList \/ name # "barcode"
               /\ Len(_relevant_dates) < MaxLegacyList \/ name # "relevant_date"
               /\ Len(_locations) < MaxLegacyList \/ name # "locations"
               /\ Len(_beacons) < MaxLegacyList \/ name # "ibeacons"
               /\ SetAttr(name, value)
    \/ \E b \in PipelineBarcodes : Len(_barcodes) < MaxLegacyList /\ AddBarcode(b)
    \/ \E l \in LocationArgs : Len(_locations) < MaxLegacyList /\ AddLocation(l)
    \/ \E b \in BeaconArgs : Len(_beacons) < MaxLegacyList /\ AddBeacon(b)
    \/ \E d \in LegacyDateArgs :
           Len(_relevant_dates) < MaxLegacyList /\ AddRelevantDate(d)

SpecLegacy == InitLegacy /\ [][NextLegacy]_vars

-----------------------------------------------------------------------------
(* SpecTwo: two ApplePass instances of one process, each with its own      *)
(* sink, whose operations and create() steps interleave                    *)

\* at most MaxAttached assets and barcodes on each instance
MaxAttached == 1

\* the instance a step runs on, as the record of its attributes
State ==
    [pass_information |-> pass_information,
     pass_type_identifier |-> pass_type_identifier,
     organization_name |-> organization_name,
     team_identifier |-> team_identifier,
     serial_number |-> serial_number, description |-> description,
     attrs |-> attrs, _barcodes |-> _barcodes, _locations |-> _locations,
     _beacons |-> _beacons, _relevant_dates |-> _relevant_dates,
     _files |-> _files, _hashes |-> _hashes, pc |-> pc, cr |-> cr,
     steps |-> steps, sink |-> sink, ret |-> ret, last |-> last]

\* the scheduler turns to the other instance: the next steps run on it
Switch ==
    /\ other.pc # "absent"
    /\ pass_information' = other.pass_information
    /\ pass_type_identifier' = other.pass_type_identifier
    /\ organization_name' = other.organization_name
    /\ team_identifier' = other.team_identifier
    /\ serial_number' = other.serial_number
    /\ description' = other.description
    /\ attrs' = other.attrs
    /\ _barcodes' = other._barcodes
    /\ _locations' = other._locations
    /\ _beacons' = other._beacons
    /\ _relevant_dates' = other._relevant_dates
    /\ _files' = other._files
    /\ _hashes' = other._hashes
    /\ pc' = other.pc
    /\ cr' = other.cr
    /\ steps' = other.steps
    /\ sink' = other.sink
    /\ ret' = other.ret
    /\ last' = other.last
    /\ other' = State
    /\ UNCHANGED calls

PeerFileNames == {"icon.png", "logo.png"}

Attached == Len(_files) + Len(_barcodes)

InitTwo ==
    /\ ApplePassInit(Coupon, "pass.com.example", "Example Corp", "TEAM123456")
    /\ other = FreshPass(Generic, "pass.com.example", "Example Corp", "TEAM123456")
    /\ calls = NoCalls

NextTwo ==
    \/ Switch
    \/ SetSerialNumber("SN-1")
    \/ SetDescription("A pass")
    \/ \E n \in PeerFileNames : Attached < MaxAttached /\ AddFile(n, "PNG-A")
    \/ \E b \in PipelineBarcodes : Attached < MaxAttached /\ AddBarcode(b)
    \/ CreateValidate
    \/ CreateEncode
    \/ CreateManifest
    \/ CreateSign("none")
    \/ CreateZip

SpecTwo == InitTwo /\ [][NextTwo]_vars

-----------------------------------------------------------------------------
(* SpecBarcodeObject: Barcode objects built from every kind of message and *)
(* format, attached to a pass, and assigned to through the message and     *)
(* format setters while attached                                           *)

MaxBarcodeObjects == 1

\* Barcode(message, format, encoding, alt_text), run by the caller: the
\* pass is not touched
ConstructBarcode(message, format, encoding, alt_text) ==
    /\ pc = "idle"
    /\ ret' = [op |-> "Barcode",
               exc |-> BarcodeInit(message, format, encoding, alt_text).exc,
               args |-> <<message, format>>,
               obj |-> BarcodeInit(message, format, encoding, alt_text).obj]
    /\ UNCHANGED last
    /\ UNCHANGED passVars
    /\ UNCHANGED createVars
    /\ UNCHANGED <<other, calls>>

\* barcode.message = value on the i-th attached barcode, which the pass
\* holds by reference
AssignBarcodeMessage(i, value) ==
    /\ pc = "idle"
    /\ i \in 1..Len(_barcodes)
    /\ _barcodes' = [_barcodes EXCEPT ![i] = barcode_set_message(@, value).obj]
    /\ ret' = [op |-> "Barcode.message",
               exc |-> barcode_set_message(_barcodes[i], value).exc,
               args |-> <<i, value>>, obj |-> None]
    /\ Mutated(_barcodes' # _barcodes)
    /\ UNCHANGED <<pass_information, pass_type_identifier, organization_name,
                   team_identifier, serial_number, description, attrs,
                   _locations, _beacons, _relevant_dates, _files>>
    /\ UNCHANGED createVars
    /\ UNCHANGED <<other, calls>>

\* barcode.format = value on the i-th attached barcode
AssignBarcodeFormat(i, value) ==
    /\ pc = "idle"
    /\ i \in 1..Len(_barcodes)
    /\ _barcodes' = [_barcodes EXCEPT ![i] = barcode_set_format(@, value).obj]
    /\ ret' = [op |-> "Barcode.format",
               exc |-> barcode_set_format(_barcodes[i], value).exc,
               args |-> <<i, value>>, obj |-> None]
    /\ Mutated(_barcodes' # _barcodes)
    /\ UNCHANGED <<pass_information, pass_type_identifier, organization_name,
                   team_identifier, serial_number, description, attrs,
                   _locations, _beacons, _relevant_dates, _files>>
    /\ UNCHANGED createVars
    /\ UNCHANGED <<other, calls>>

AssignedMessages == {None, "", "m2"}
AssignedFormats == {QR, CODE128, "PKBarcodeFormatEAN13", ""}
ObjectAltTexts == {None, "alt"}

InitBarcodeObject ==
    OnePass(Coupon, "pass.com.example", "Example Corp", "TEAM123456")

NextBarcodeObject ==
    \/ \E m \in MessageArgs, f \in FormatArgs \cup {""}, a \in ObjectAltTexts :
           ConstructBarcode(m, f, "utf-8", a)
    \/ /\ ret.op = "Barcode"
       /\ ret.exc = "none"
       /\ Len(_barcodes) < MaxBarcodeObjects
       /\ AddBarcode(Arg("Barcode", ret.obj))
    \/ \E i \in 1..MaxBarcodeObjects, v \in AssignedMessages : AssignBarcodeMessage(i, v)
    \/ \E i \in 1..MaxBarcodeObjects, v \in AssignedFormats : AssignBarcodeFormat(i, v)

SpecBarcodeObject == InitBarcodeObject /\ [][NextBarcodeObject]_vars

-----------------------------------------------------------------------------
(* SpecToken: a pass whose web service URL and authentication token are    *)
(* assigned, and which is then assembled                                   *)

TokenValues == {None, "short", "0123456789abcdef"}
UrlValues == {None, "https://example.com/passes/"}

InitToken ==
    OnePass(Coupon, "pass.com.example", "Example Corp", "TEAM123456")

NextToken ==
    \/ \E v \in TokenValues : SetStrAttr("authentication_token", v)
    \/ \E v \in UrlValues : SetStrAttr("web_service_url", v)
    \/ SetSerialNumber("SN-1")
    \/ SetDescription("A pass")
    \/ CreateValidate
    \/ CreateEncode
    \/ CreateManifest
    \/ \E o \in SignOutcomes : CreateSign(o)
    \/ CreateZip

SpecToken == InitToken /\ [][NextToken]_vars

-----------------------------------------------------------------------------
(* validators.py and utils.py: the functions a caller applies to a value   *)
(* before giving it to a pass.  A specification of this part starts with   *)
(* the argument at hand, in ret, and its action applies the function.      *)

\* a new pass, and the argument x the caller is about to pass on
PassWithInput(x) ==
    /\ pass_information = Coupon
    /\ pass_type_identifier = "pass.com.example"
    /\ organization_name = "Example Corp"
    /\ team_identifier = "TEAM123456"
    /\ serial_number = ""
    /\ description = ""
    /\ attrs = InitAttrs
    /\ _barcodes = << >>
    /\ _locations = << >>
    /\ _beacons = << >>
    /\ _relevant_dates = << >>
    /\ _files = << >>
    /\ _hashes = << >>
    /\ pc = "idle"
    /\ cr = NoLocals
    /\ steps = << >>
    /\ sink = << >>
    /\ last = NoLast
    /\ other = NoPeer
    /\ calls = NoCalls
    /\ ret = [op |-> "input", exc |-> "none", args |-> <<x>>, obj |-> None]

\* a call of a function of this part: its outcome goes to ret
Call(name, result) ==
    /\ pc = "idle"
    /\ ret.op = "input"
    /\ ret' = [op |-> name, exc |-> result.exc, args |-> ret.args, obj |-> result.v]
    /\ UNCHANGED last
    /\ UNCHANGED passVars
    /\ UNCHANGED createVars
    /\ UNCHANGED <<other, calls>>

\* the str made of n times the character c
RECURSIVE Repeat(_, _)
Repeat(c, n) == IF n = 0 THEN "" ELSE c \o Repeat(c, n - 1)

\* a validator whose limit is one short
validate_authentication_token_15(token) ==
    IF token.type # "str" THEN [exc |-> "ValueError", v |-> None]
    ELSE IF Len(token.obj) < 15 THEN [exc |-> "ValueError", v |-> None]
    ELSE [exc |-> "none", v |-> JBool(TRUE)]

\* validate_authentication_token(token)
validate_authentication_token(token) ==
    IF token.type # "str" THEN [exc |-> "ValueError", v |-> None]
    ELSE IF Len(token.obj) < 16 THEN [exc |-> "ValueError", v |-> None]
    ELSE [exc |-> "none", v |-> JBool(TRUE)]

-----------------------------------------------------------------------------
(* SpecTokenValidator: validate_authentication_token on strings of every   *)
(* length up to MaxTokenLen and on values that are no str                  *)

MaxTokenLen == 18

TokenChars == {"a", "0", " "}

TokenInputs ==
    {Arg("str", Repeat(c, n)) : c \in TokenChars, n \in 0..MaxTokenLen}
    \cup {Arg("NoneType", None), Arg("int", 16), Arg("int", 0),
          Arg("bytes", Repeat("a", 16)), Arg("list", [i \in 1..16 |-> "a"])}

ValidateAuthenticationToken ==
    Call("validate_authentication_token", validate_authentication_token(ret.args[1]))

InitTokenValidator == \E x \in TokenInputs : PassWithInput(x)

NextTokenValidator == ValidateAuthenticationToken

SpecTokenValidator == InitTokenValidator /\ [][NextTokenValidator]_vars

-----------------------------------------------------------------------------
(* utils.py: rgb_color and hex_to_rgb.  A str that is taken apart          *)
(* character by character is the sequence of its characters.               *)

HexLower == <<"0", "1", "2", "3", "4", "5", "6", "7", "8", "9",
              "a", "b", "c", "d", "e", "f">>
HexUpper == <<"0", "1", "2", "3", "4", "5", "6", "7", "8", "9",
              "A", "B", "C", "D", "E", "F">>

\* the value of a character as a digit in int(s, 16); a character that is
\* no digit of base 16 has a value beyond the base
DigitValue(c) ==
    IF \E i \in 1..16 : HexLower[i] = c \/ HexUpper[i] = c
    THEN (CHOOSE i \in 1..16 : HexLower[i] = c \/ HexUpper[i] = c) - 1
    ELSE 37

\* s.lstrip(c)
RECURSIVE LStrip(_, _)
LStrip(s, c) ==
    IF Len(s) > 0 /\ s[1] = c THEN LStrip(Tail(s), c) ELSE s

\* s.rstrip(c)
RECURSIVE RStrip(_, _)
RStrip(s, c) ==
    IF Len(s) > 0 /\ s[Len(s)] = c THEN RStrip(SubSeq(s, 1, Len(s) - 1), c) ELSE s

\* the digits of an int literal: at least one digit, underscores only
\* singly and between digits
DigitsValid(s) ==
    /\ Len(s) > 0
    /\ s[1] # "_"
    /\ s[Len(s)] # "_"
    /\ \A i \in 1..Len(s) :
           IF s[i] = "_" THEN s[i - 1] # "_" ELSE DigitValue(s[i]) < 16

RECURSIVE DigitsValue(_, _)
DigitsValue(s, acc) ==
    IF Len(s) = 0 THEN acc
    ELSE IF s[1] = "_" THEN DigitsValue(Tail(s), acc)
    ELSE DigitsValue(Tail(s), acc * 16 + DigitValue(s[1]))

\* int(s, 16) of a str: surrounding whitespace is dropped, then come an
\* optional sign, an optional 0x or 0X which one underscore may follow, and
\* the digits
PyInt16(s) ==
    LET stripped == RStrip(LStrip(s, " "), " ")
        signed == Len(stripped) > 0 /\ stripped[1] \in {"+", "-"}
        unsigned == IF signed THEN Tail(stripped) ELSE stripped
        prefixed == /\ Len(unsigned) >= 2
                    /\ unsigned[1] = "0"
                    /\ unsigned[2] \in {"x", "X"}
        after == IF prefixed THEN SubSeq(unsigned, 3, Len(unsigned)) ELSE unsigned
        digits == IF prefixed /\ Len(after) > 0 /\ after[1] = "_"
                  THEN Tail(after) ELSE after
    IN  IF ~DigitsValid(digits) THEN [exc |-> "ValueError", v |-> 0]
        ELSE [exc |-> "none",
              v |-> IF signed /\ stripped[1] = "-"
                    THEN 0 - DigitsValue(digits, 0) ELSE DigitsValue(digits, 0)]

\* rgb_color(r, g, b) with three ints
rgb_color(r, g, b) ==
    IF ~(\A val \in {r, g, b} : 0 <= val /\ val <= 255)
    THEN [exc |-> "ValueError", v |-> None]
    ELSE [exc |-> "none",
          v |-> "rgb(" \o ToString(r) \o ", " \o ToString(g) \o ", "
                \o ToString(b) \o ")"]

\* ''.join([c*2 for c in hex_color])
RECURSIVE Doubled(_)
Doubled(s) ==
    IF Len(s) = 0 THEN << >> ELSE <<s[1], s[1]>> \o Doubled(Tail(s))

\* hex_to_rgb(hex_color)
hex_to_rgb(hex_color) ==
    IF hex_color.type # "str" THEN [exc |-> "ValueError", v |-> None]
    ELSE LET s == LStrip(hex_color.obj, "#")
             e == IF Len(s) = 3 THEN Doubled(s) ELSE s
             r == PyInt16(SubSeq(e, 1, 2))
             g == PyInt16(SubSeq(e, 3, 4))
             b == PyInt16(SubSeq(e, 5, 6))
         IN  IF Len(s) \notin {3, 6} THEN [exc |-> "ValueError", v |-> None]
             ELSE IF PyInt16(s).exc # "none" THEN [exc |-> "ValueError", v |-> None]
             ELSE IF r.exc # "none" \/ g.exc # "none" \/ b.exc # "none"
             THEN [exc |-> "ValueError", v |-> None]
             ELSE rgb_color(r.v, g.v, b.v)

-----------------------------------------------------------------------------
(* SpecHex: hex_to_rgb on the strings of up to MaxHexLen characters made   *)
(* of hexadecimal digits with at most one other character among them,      *)
(* behind up to two '#'                                                    *)

MaxHexLen == 6

HexChars == {"F", "6", "0"}
OtherChars == {"G", "+", "-", " ", "_", "x", "#"}

\* the strings of exactly n characters of S
RECURSIVE StringsOf(_, _)
StringsOf(S, n) ==
    IF n = 0 THEN {<< >>}
    ELSE {<<c>> \o s : c \in S, s \in StringsOf(S, n - 1)}

HexBodies ==
    UNION {StringsOf(HexChars, n) : n \in 0..MaxHexLen}
    \cup {[s EXCEPT ![i] = c] :
             <<s, i, c>> \in {x \in (UNION {StringsOf(HexChars, n) : n \in 1..MaxHexLen})
                                    \X (1..MaxHexLen) \X OtherChars : x[2] <= Len(x[1])}}

HexInputs ==
    {Arg("str", p \o s) : p \in {<< >>, <<"#">>, <<"#", "#">>}, s \in HexBodies}
    \cup {Arg("NoneType", None)}

HexToRgb == Call("hex_to_rgb", hex_to_rgb(ret.args[1]))

InitHex == \E x \in HexInputs : PassWithInput(x)

NextHex == HexToRgb

SpecHex == InitHex /\ [][NextHex]_vars

-----------------------------------------------------------------------------
(* SpecPersonalization: Personalization objects built from every kind of   *)
(* required_fields argument, assigned to a pass, while the caller keeps    *)
(* the list it gave                                                        *)

MaxRequiredFields == 2

\* Personalization(required_fields, description), run by the caller: the
\* pass is not touched
ConstructPersonalization(required_fields, desc) ==
    /\ pc = "idle"
    /\ ret' = [op |-> "Personalization",
               exc |-> PersonalizationInit(required_fields, desc, "").exc,
               args |-> <<required_fields>>,
               obj |-> PersonalizationInit(required_fields, desc, "").obj]
    /\ UNCHANGED last
    /\ UNCHANGED passVars
    /\ UNCHANGED createVars
    /\ UNCHANGED <<other, calls>>

\* apple_pass.personalization = the Personalization just constructed
AssignPersonalization ==
    /\ pc = "idle"
    /\ ret.op = "Personalization"
    /\ ret.exc = "none"
    /\ attrs' = [attrs EXCEPT !.personalization =
                     [t |-> "Personalization", v |-> ret.obj]]
    /\ ret' = Ret("personalization", "none")
    /\ Mutated(TRUE)
    /\ UNCHANGED <<pass_information, pass_type_identifier, organization_name,
                   team_identifier, serial_number, description, _barcodes,
                   _locations, _beacons, _relevant_dates, _files>>
    /\ UNCHANGED createVars
    /\ UNCHANGED <<other, calls>>

\* the caller changes the list it gave to the constructor, which is the
\* list the Personalization of the pass holds: required_fields.append(x)
GivenListAppend(x) ==
    /\ pc = "idle"
    /\ attrs.personalization.t # "none"
    /\ attrs' = [attrs EXCEPT !.personalization.v.requiredPersonalizationFields
                                  = Append(@, x)]
    /\ ret' = Ret("list.append", "none")
    /\ Mutated(TRUE)
    /\ UNCHANGED <<pass_information, pass_type_identifier, organization_name,
                   team_identifier, serial_number, description, _barcodes,
                   _locations, _beacons, _relevant_dates, _files>>
    /\ UNCHANGED createVars
    /\ UNCHANGED <<other, calls>>

\* required_fields.clear()
GivenListClear ==
    /\ pc = "idle"
    /\ attrs.personalization.t # "none"
    /\ attrs' = [attrs EXCEPT !.personalization.v.requiredPersonalizationFields
                                  = << >>]
    /\ ret' = Ret("list.clear", "none")
    /\ Mutated(TRUE)
    /\ UNCHANGED <<pass_information, pass_type_identifier, organization_name,
                   team_identifier, serial_number, description, _barcodes,
                   _locations, _beacons, _relevant_dates, _files>>
    /\ UNCHANGED createVars
    /\ UNCHANGED <<other, calls>>

\* the elements a caller puts in required_fields: two of the names, a str
\* that is no name, None, and a list
FieldElements ==
    {Arg("str", "PKPassPersonalizationFieldName"),
     Arg("str", "PKPassPersonalizationFieldEmailAddress"),
     Arg("str", "PKPassPersonalizationFieldFax"),
     NoneValue,
     Arg("list", << >>)}

RequiredFieldsArgs ==
    {Arg("list", l) : l \in UNION {StringsOf(FieldElements, n) : n \in 0..MaxRequiredFields}}
    \cup {Arg("tuple", <<Arg("str", "PKPassPersonalizationFieldName")>>),
          Arg("str", "PKPassPersonalizationFieldName"),
          NoneValue}

InitPersonalization ==
    OnePass(Coupon, "pass.com.example", "Example Corp", "TEAM123456")

NextPersonalization ==
    \/ \E f \in RequiredFieldsArgs, d \in {"", "Provide your name"} :
           ConstructPersonalization(f, d)
    \/ AssignPersonalization
    \/ /\ attrs.personalization.t # "none"
       /\ Len(attrs.personalization.v.requiredPersonalizationFields) < MaxRequiredFields
       /\ GivenListAppend(Arg("str", "PKPassPersonalizationFieldFax"))
    \/ GivenListClear

SpecPersonalization == InitPersonalization /\ [][NextPersonalization]_vars

-----------------------------------------------------------------------------
(* SpecAdds: the four add-operations called with arguments of the right    *)
(* and of a wrong type, on lists that fill up to the limit                 *)

AddedBarcodes == PipelineBarcodes \cup {WrongType, NoneValue}

AddedDates ==
    {Arg("str", "d1"), Arg("str", ""), WrongType, NoneValue,
     Arg("RelevantDate", RelevantDateInit(None, "d1", "d2").obj)}

InitAdds ==
    OnePass(Coupon, "pass.com.example", "Example Corp", "TEAM123456")

NextAdds ==
    \/ \E b \in AddedBarcodes :
           /\ Len(_barcodes) < MaxBarcodes \/ add_barcode(_barcodes, b).exc # "none"
           /\ AddBarcode(b)
    \/ \E l \in LocationArgs : AddLocation(l)
    \/ \E b \in BeaconArgs : AddBeacon(b)
    \/ \E d \in AddedDates :
           /\ Len(_relevant_dates) < MaxDates
              \/ add_relevant_date(_relevant_dates, d).exc # "none"
           /\ AddRelevantDate(d)

SpecAdds == InitAdds /\ [][NextAdds]_vars

-----------------------------------------------------------------------------
(* SpecThreads: add_location and add_beacon called by several threads on   *)
(* one pass with no lock.  The interpreter may switch threads between the  *)
(* length test of a call and its append, so each is a step of its own.     *)

\* the list an add-operation works on
ListFor(op) == IF op = "add_location" THEN _locations ELSE _beacons
TypeFor(op) == IF op = "add_location" THEN "Location" ELSE "IBeacon"
LimitFor(op) == IF op = "add_location" THEN MaxLocations ELSE MaxBeacons

\* an append step that tests the length once more
ThreadAppendRechecking(t) ==
    /\ pc = "idle"
    /\ calls[t].pc = "append"
    /\ IF Len(ListFor(calls[t].op)) >= LimitFor(calls[t].op)
       THEN /\ UNCHANGED <<_locations, _beacons, last>>
            /\ calls' = [calls EXCEPT ![t].pc = "idle", ![t].exc = "ValueError"]
            /\ ret' = [Ret(calls[t].op, "ValueError") EXCEPT !.args = <<t>>]
       ELSE /\ _locations' = IF calls[t].op = "add_location"
                             THEN Append(_locations, calls[t].arg.obj) ELSE _locations
            /\ _beacons' = IF calls[t].op = "add_beacon"
                           THEN Append(_beacons, calls[t].arg.obj) ELSE _beacons
            /\ calls' = [calls EXCEPT ![t].pc = "idle", ![t].exc = "none"]
            /\ ret' = [Ret(calls[t].op, "none") EXCEPT !.args = <<t>>]
            /\ Mutated(TRUE)
    /\ UNCHANGED <<pass_information, pass_type_identifier, organization_name,
                   team_identifier, serial_number, description, attrs,
                   _barcodes, _relevant_dates, _files>>
    /\ UNCHANGED createVars
    /\ UNCHANGED other

\* thread t enters add_location or add_beacon: the isinstance test and the
\* length test, which raise or let the call go on to its append
ThreadCheck(t, op, arg) ==
    /\ pc = "idle"
    /\ calls[t].pc = "idle"
    /\ IF arg.type # TypeFor(op)
       THEN /\ calls' = [calls EXCEPT ![t] = [pc |-> "idle", op |-> op, arg |-> arg,
                                              exc |-> "TypeError"]]
            /\ ret' = [Ret(op, "TypeError") EXCEPT !.args = <<t>>]
       ELSE IF Len(ListFor(op)) >= LimitFor(op)
       THEN /\ calls' = [calls EXCEPT ![t] = [pc |-> "idle", op |-> op, arg |-> arg,
                                              exc |-> "ValueError"]]
            /\ ret' = [Ret(op, "ValueError") EXCEPT !.args = <<t>>]
       ELSE /\ calls' = [calls EXCEPT ![t] = [pc |-> "append", op |-> op, arg |-> arg,
                                              exc |-> "none"]]
            /\ UNCHANGED ret
    /\ UNCHANGED last
    /\ UNCHANGED passVars
    /\ UNCHANGED createVars
    /\ UNCHANGED other

\* thread t goes on: self._locations.append(location) or
\* self._beacons.append(beacon), and the call returns
ThreadAppend(t) ==
    /\ pc = "idle"
    /\ calls[t].pc = "append"
    /\ _locations' = IF calls[t].op = "add_location"
                     THEN Append(_locations, calls[t].arg.obj) ELSE _locations
    /\ _beacons' = IF calls[t].op = "add_beacon"
                   THEN Append(_beacons, calls[t].arg.obj) ELSE _beacons
    /\ calls' = [calls EXCEPT ![t].pc = "idle", ![t].exc = "none"]
    /\ ret' = [Ret(calls[t].op, "none") EXCEPT !.args = <<t>>]
    /\ Mutated(TRUE)
    /\ UNCHANGED <<pass_information, pass_type_identifier, organization_name,
                   team_identifier, serial_number, description, attrs,
                   _barcodes, _relevant_dates, _files>>
    /\ UNCHANGED createVars
    /\ UNCHANGED other

InitThreads ==
    OnePass(Coupon, "pass.com.example", "Example Corp", "TEAM123456")

NextThreads ==
    \/ \E t \in Threads, l \in LocationArgs : ThreadCheck(t, "add_location", l)
    \/ \E t \in Threads, b \in BeaconArgs : ThreadCheck(t, "add_beacon", b)
    \/ \E t \in Threads : ThreadAppend(t)

SpecThreads == InitThreads /\ [][NextThreads]_vars

-----------------------------------------------------------------------------
(* SpecFields: fields added to the collections of a PassInformation, with  *)
(* keys that repeat within a collection and across collections             *)

MaxKeyedFields == 3

FieldSlots == {"header_fields", "primary_fields", "back_fields"}
FieldKeys == {"gate", "seat"}
FieldValues == {"A23", "B7"}

\* the fields of the collections named in FieldSlots
KeyedFieldCount ==
    Len(pass_information.header_fields) + Len(pass_information.primary_fields)
    + Len(pass_information.back_fields)

InitFields ==
    \E info \in {Generic, BoardingPass(AIR)} :
        OnePass(info, "pass.com.example", "Example Corp", "TEAM123456")

NextFields ==
    \E slot \in FieldSlots, key \in FieldKeys, value \in FieldValues :
        KeyedFieldCount < MaxKeyedFields /\ AddField(slot, key, value, "Label")

SpecFields == InitFields /\ [][NextFields]_vars

-----------------------------------------------------------------------------
(* Properties of the assembly pipeline (Spec) *)

\* create() has returned normally in this state; the archive it wrote
\* holds the canonical document it encoded as member pass.json
Returned == pc = "idle" /\ ret.op = "create" /\ ret.exc = "none"
WrittenPassJson == sink[3][2]

\* C1: two consecutive assemblies with no mutation in between produce the
\* same pass.json string and the same manifest (same keys, same digests,
\* same serialized text), the second one reusing the digest map the first
\* left.  The manifest step of an assembly that follows an unmutated one
\* yields the document and the manifest remembered from it.
C1_Determinism ==
    [][(pc = "manifest" /\ last.doc # None)
          => /\ last'.doc = last.doc
             /\ last'.manifest = last.manifest
             /\ last'.hashes = last.hashes]_vars

\* a second assembly has built its manifest, the pass holding an asset and
\* a barcode, with no mutation since the first
C1_Witness ==
    /\ pc = "sign"
    /\ last.again
    /\ Len(_files) > 0
    /\ Len(_barcodes) > 0

\* C2: after create(), whatever names the assets carry, the manifest's keys
\* are exactly "pass.json" plus the asset names, the "pass.json" entry is
\* the SHA-1 digest of the canonical document of that create(), and each
\* asset entry is the SHA-1 digest of that asset's bytes.
C2_ManifestCorrect ==
    Returned =>
        /\ DictKeys(_hashes) = {"pass.json"} \cup DictKeys(_files)
        /\ DictGet(_hashes, "pass.json") = Sha1(WrittenPassJson)
        /\ \A i \in 1..Len(_files) :
               DictGet(_hashes, _files[i][1]) = Sha1(_files[i][2])

\* C4: create() on a pass whose serial_number or description is empty
\* raises ValueError and goes no further than the validation: nothing is
\* encoded, no digest is written, the signer is not invoked, nothing is
\* written to the sink, and the pass is as it was.
C4_RequiredFields ==
    [][(pc = "idle" /\ ret'.op = "create"
        /\ (serial_number = "" \/ description = ""))
          => /\ ret'.exc = "ValueError"
             /\ pc' = "idle"
             /\ steps' = <<"validate">>
             /\ UNCHANGED <<_hashes, sink, cr>>
             /\ UNCHANGED passVars]_vars

\* create() has just failed on an empty description, on a pass that has a
\* serial number, an asset and the digests of an earlier assembly
C4_Witness ==
    /\ ret = Ret("create", "ValueError")
    /\ steps = <<"validate">>
    /\ serial_number # ""
    /\ description = ""
    /\ Len(_files) > 0
    /\ Len(_hashes) > 0

-----------------------------------------------------------------------------
(* Properties of locations and beacons (SpecRelevance) *)

\* C3: under add_location, add_beacon and the legacy assignments of a
\* value or a list, a pass never holds more than 10 locations or more
\* than 10 beacons, and add_location (add_beacon) called with a Location
\* (an IBeacon) when 10 are held raises ValueError and attaches nothing.
C3_AtMostTen ==
    /\ [](Len(_locations) <= 10 /\ Len(_beacons) <= 10)
    /\ [][(ret'.op = "add_location" /\ ret'.args = <<"Location">>
           /\ Len(_locations) = 10)
             => (ret'.exc = "ValueError" /\ UNCHANGED _locations)]_vars
    /\ [][(ret'.op = "add_beacon" /\ ret'.args = <<"IBeacon">>
           /\ Len(_beacons) = 10)
             => (ret'.exc = "ValueError" /\ UNCHANGED _beacons)]_vars

\* both lists are full and an eleventh add_beacon has just raised
C3_Witness ==
    /\ Len(_locations) = 10
    /\ Len(_beacons) = 10
    /\ ret.op = "add_beacon"
    /\ ret.args = <<"IBeacon">>
    /\ ret.exc = "ValueError"

-----------------------------------------------------------------------------
(* Properties of the barcode keys (SpecBarcodes) *)

LegacyFormatNames ==
    {"PKBarcodeFormatPDF417", "PKBarcodeFormatQR", "PKBarcodeFormatAztec"}

\* the legacy 'barcode' entry and the 'barcodes' array of the document
LegacyBarcodeEntry == DictGet(JsonDict, "barcode").v
BarcodesArray == DictGet(JsonDict, "barcodes").v

\* entry is the projection of barcode b
EntryOfBarcode(entry, b) ==
    /\ DictGet(entry.v, "format").v = b.format
    /\ DictGet(entry.v, "message").v = b.message
    /\ DictGet(entry.v, "messageEncoding").v = b.messageEncoding
    /\ DictHas(entry.v, "altText") <=> b.altText # Unset
    /\ DictHas(entry.v, "altText") => DictGet(entry.v, "altText").v = b.altText

\* C5: the legacy 'barcode' field always has one of the three legacy
\* formats, and when the first-attached barcode is a CODE128 it has format
\* PDF417 and carries the message and the messageEncoding of that barcode.
C5_LegacyCarriesEncoding ==
    Len(_barcodes) > 0 =>
        /\ DictGet(LegacyBarcodeEntry, "format").v \in LegacyFormatNames
        /\ _barcodes[1].format \notin LegacyFormatNames =>
               /\ DictGet(LegacyBarcodeEntry, "format").v = "PKBarcodeFormatPDF417"
               /\ DictGet(LegacyBarcodeEntry, "message").v = _barcodes[1].message
               /\ DictGet(LegacyBarcodeEntry, "messageEncoding").v
                      = _barcodes[1].messageEncoding

\* C6: once a barcode is attached, 'barcodes' has one entry per attached
\* barcode in attachment order (an add keeps the earlier ones in place),
\* the legacy 'barcode' field equals the first entry of 'barcodes' when
\* the first-attached barcode is PDF417, QR or Aztec, and attaching further
\* barcodes leaves the legacy field as it is.
C6_LegacyIsFirst ==
    /\ [](Len(_barcodes) > 0 =>
            /\ DictHas(JsonDict, "barcodes")
            /\ Len(BarcodesArray) = Len(_barcodes)
            /\ \A i \in 1..Len(_barcodes) :
                   EntryOfBarcode(BarcodesArray[i], _barcodes[i])
            /\ _barcodes[1].format \in LegacyFormatNames =>
                   DictGet(JsonDict, "barcode") = BarcodesArray[1])
    /\ [][Len(_barcodes) > 0 =>
            /\ SubSeq(_barcodes', 1, Len(_barcodes)) = _barcodes
            /\ LegacyBarcodeEntry' = LegacyBarcodeEntry]_vars

\* a QR barcode with alt text was attached first, a CODE128 after it
C6_Witness ==
    /\ Len(_barcodes) = 2
    /\ _barcodes[1].format = "PKBarcodeFormatQR"
    /\ _barcodes[1].altText = "alt"
    /\ _barcodes[2].format = "PKBarcodeFormatCode128"
    /\ ret.op = "add_barcode"

-----------------------------------------------------------------------------
(* Properties of the relevant dates (SpecDates, SpecRelevantDate) *)

\* an argument that is given: neither None nor the empty string
Given(x) == x # None /\ x # ""

LegacyDate == DictGet(JsonDict, "relevantDate")
DatesArray == DictGet(JsonDict, "relevantDates").v

\* C7: once a relevant date is attached, the legacy 'relevantDate' field is
\* the date of the first-attached entry if it has one, otherwise its start
\* date, and attaching further entries leaves it as it is.
C7_LegacyDateIsFirst ==
    /\ [](Len(_relevant_dates) > 0 =>
            LegacyDate.v = IF Given(_relevant_dates[1].date)
                           THEN _relevant_dates[1].date
                           ELSE _relevant_dates[1].startDate)
    /\ [][Len(_relevant_dates) > 0 => LegacyDate' = LegacyDate]_vars

\* an interval was attached first and a single date "d1", earlier than the
\* interval's start "d2", after it
C7_Witness ==
    /\ Len(_relevant_dates) = 2
    /\ ~Given(_relevant_dates[1].date)
    /\ _relevant_dates[1].startDate = "d2"
    /\ _relevant_dates[2].date = "d1"

\* C8: RelevantDate(date, start_date, end_date) succeeds exactly when date
\* is given and neither start_date nor end_date is, or start_date and
\* end_date are both given and date is not; every other combination raises
\* ValueError; a constructed RelevantDate has exactly one of the two forms.
C8_ExactlyOneForm ==
    ret.op = "RelevantDate" =>
        /\ ret.exc \in {"none", "ValueError"}
        /\ ret.exc = "none" <=>
               \/ Given(ret.args[1]) /\ ~Given(ret.args[2]) /\ ~Given(ret.args[3])
               \/ ~Given(ret.args[1]) /\ Given(ret.args[2]) /\ Given(ret.args[3])
        /\ ret.exc = "none" =>
               /\ ret.obj.date = ret.args[1]
               /\ ret.obj.startDate = ret.args[2]
               /\ ret.obj.endDate = ret.args[3]
               /\ Given(ret.obj.date)
                      # (Given(ret.obj.startDate) /\ Given(ret.obj.endDate))
               /\ Given(ret.obj.date)
                      => ~Given(ret.obj.startDate) /\ ~Given(ret.obj.endDate)

\* an interval was constructed with an empty string as date
C8_Witness ==
    /\ ret.op = "RelevantDate"
    /\ ret.exc = "none"
    /\ ret.args = <<"", "d1", "d2">>

\* entry is the projection of the RelevantDate d: only 'date', or exactly
\* 'startDate' and 'endDate'
EntryOfDate(entry, d) ==
    \/ /\ DictKeys(entry.v) = {"date"}
       /\ Len(entry.v) = 1
       /\ DictGet(entry.v, "date").v = d.date
    \/ /\ DictKeys(entry.v) = {"startDate", "endDate"}
       /\ Len(entry.v) = 2
       /\ DictGet(entry.v, "startDate").v = d.startDate
       /\ DictGet(entry.v, "endDate").v = d.endDate

\* C9: the document holds 'relevantDates' and 'relevantDate' exactly when
\* a relevant date is attached; 'relevantDates' then has one entry per
\* attached date in attachment order, each with only 'date' or exactly
\* 'startDate' and 'endDate'; a str argument is attached as an entry whose
\* date is that str.
C9_DatesTogether ==
    /\ DictHas(JsonDict, "relevantDates") <=> Len(_relevant_dates) > 0
    /\ DictHas(JsonDict, "relevantDate") <=> Len(_relevant_dates) > 0
    /\ Len(_relevant_dates) > 0 =>
           /\ Len(DatesArray) = Len(_relevant_dates)
           /\ \A i \in 1..Len(_relevant_dates) :
                  EntryOfDate(DatesArray[i], _relevant_dates[i])
    /\ (ret.op \in {"add_relevant_date", "relevant_date"}
        /\ ret.exc = "none" /\ ret.args # << >>) =>
           /\ Len(_relevant_dates) > 0
           /\ DictKeys(DatesArray[Len(DatesArray)].v) = {"date"}
           /\ DictGet(DatesArray[Len(DatesArray)].v, "date").v = ret.args[1]

\* the str "d2" has just been attached after an interval
C9_Witness ==
    /\ Len(_relevant_dates) = 2
    /\ Given(_relevant_dates[1].startDate)
    /\ ret.op = "add_relevant_date"
    /\ ret.exc = "none"
    /\ ret.args = <<"d2">>

-----------------------------------------------------------------------------
(* Properties of the required keys (SpecInfo) *)

RequiredKeys ==
    {"description", "formatVersion", "organizationName", "passTypeIdentifier",
     "serialNumber", "teamIdentifier", "suppressStripShine"}

VariantKeys == {"boardingPass", "coupon", "eventTicket", "generic", "storeCard"}

\* the keys of the document that name a variant, with repetitions
VariantPositions == {i \in 1..Len(JsonDict) : JsonDict[i][1] \in VariantKeys}

\* the value under the variant key
Projection == JsonDict[CHOOSE i \in VariantPositions : TRUE][2].v

\* each field collection appears under its key exactly when it is not
\* empty, with one entry per field
ProjectionOfInfo(proj, info) ==
    /\ DictKeys(proj) \subseteq {Slots[i][2] : i \in 1..Len(Slots)} \cup {"transitType"}
    /\ \A i \in 1..Len(Slots) :
           /\ DictHas(proj, Slots[i][2]) <=> Len(info[Slots[i][1]]) > 0
           /\ DictHas(proj, Slots[i][2]) =>
                  /\ Len(DictGet(proj, Slots[i][2]).v) = Len(info[Slots[i][1]])
                  /\ \A k \in 1..Len(info[Slots[i][1]]) :
                         DictGet(DictGet(proj, Slots[i][2]).v[k].v, "key").v
                             = info[Slots[i][1]][k].key

\* C10: the document always holds the seven required keys, formatVersion
\* is 1, exactly one of the five variant keys is present, it is the key of
\* the pass's variant and holds the projection of its PassInformation, and
\* that projection has transitType if and only if the variant is
\* boardingPass.
C10_RequiredKeys ==
    /\ RequiredKeys \subseteq DictKeys(JsonDict)
    /\ DictGet(JsonDict, "formatVersion").t = "int"
    /\ DictGet(JsonDict, "formatVersion").v = 1
    /\ Cardinality(VariantPositions) = 1
    /\ DictHas(JsonDict, pass_information.jsonname)
    /\ ProjectionOfInfo(Projection, pass_information)
    /\ DictHas(Projection, "transitType") <=> DictHas(JsonDict, "boardingPass")

\* a boarding pass with two fields, a barcode and a relevant date
C10_Witness ==
    /\ pass_information.jsonname = "boardingPass"
    /\ FieldCount = 2
    /\ Len(_barcodes) > 0
    /\ Len(_relevant_dates) > 0
    /\ serial_number # ""

-----------------------------------------------------------------------------
(* Properties of the optional keys (SpecAttrs) *)

\* C11: in the canonical document webServiceURL is present if and only if
\* authenticationToken is present; voided is present only when the voided
\* flag is true, with the value true; sharingProhibited is present, with
\* the value assigned, whenever sharing_prohibited holds true or false, and
\* absent only when it holds None.
C11_OptionalKeys ==
    /\ DictHas(JsonDict, "webServiceURL") <=> DictHas(JsonDict, "authenticationToken")
    /\ DictHas(JsonDict, "voided") =>
           /\ attrs.voided.t = "bool" /\ attrs.voided.v
           /\ Dumps(DictGet(JsonDict, "voided")) = "true"
    /\ DictHas(JsonDict, "sharingProhibited") <=> attrs.sharing_prohibited.t = "bool"
    /\ DictHas(JsonDict, "sharingProhibited") =>
           Dumps(DictGet(JsonDict, "sharingProhibited"))
               = (IF attrs.sharing_prohibited.v THEN "true" ELSE "false")

\* sharing_prohibited was just set to False on a pass with a web service
\* URL and a token, after voided had been set to True
C11_Witness ==
    /\ ret.op = "sharing_prohibited"
    /\ attrs.sharing_prohibited.t = "bool"
    /\ ~attrs.sharing_prohibited.v
    /\ attrs.voided.t = "bool"
    /\ attrs.voided.v
    /\ attrs.web_service_url = "value"
    /\ attrs.authentication_token = "value"

\* a JSON value that is neither null, nor "", nor []
NonEmpty(j) ==
    /\ j.t # "null"
    /\ j.t = "str" => j.v # ""
    /\ j.t = "list" => Len(j.v) > 0

\* every entry of a projection (a dict) is NonEmpty
ProjectionNonEmpty(j) ==
    j.t = "dict" => \A k \in 1..Len(j.v) : NonEmpty(j.v[k][2])

\* C12: every conditionally present top-level key of the canonical
\* document (authenticationToken and the legacy barcode included) has a
\* value that is not null, "" or [], and no projection in the document
\* (a barcode, the legacy barcode) has an entry that is null, "" or [].
C12_NoEmptyEntries ==
    \A i \in 1..Len(JsonDict) :
        JsonDict[i][1] \notin (RequiredKeys \cup VariantKeys) =>
            /\ NonEmpty(JsonDict[i][2])
            /\ ProjectionNonEmpty(JsonDict[i][2])
            /\ JsonDict[i][2].t = "list" =>
                   \A k \in 1..Len(JsonDict[i][2].v) :
                       ProjectionNonEmpty(JsonDict[i][2].v[k])

-----------------------------------------------------------------------------
(* Properties of the steps of create() (Spec) *)

\* C13: when reading or parsing a credential, or signing, fails, create()
\* raises with the sink as it was and without having started the archive
\* step; the sink is written only by the archive step, which starts only
\* after validate, encode, manifest and sign have completed and the
\* signature of the manifest is at hand.
C13_NoPartialArchive ==
    /\ [][(pc = "sign" /\ pc' = "idle") =>
            /\ ret'.op = "create"
            /\ ret'.exc \in {"OSError", "ValueError"}
            /\ sink' = sink
            /\ \A i \in 1..Len(steps') : steps'[i] # "zip"]_vars
    /\ [][sink' # sink =>
            /\ pc = "zip"
            /\ steps = <<"validate", "encode", "manifest", "sign">>
            /\ cr.signature = Pkcs7Sign(cr.manifest)
            /\ ret.exc = "none"]_vars

\* signing has failed in a create() that follows a successful one: the
\* sink still holds the earlier archive
C13_Witness ==
    /\ ret = Ret("create", "OSError")
    /\ pc = "idle"
    /\ steps = <<"validate", "encode", "manifest", "sign">>
    /\ Len(sink) > 3

\* the member names of the archive in the sink, in the order written
ArchiveNames == [i \in 1..Len(sink) |-> sink[i][1]]

\* C14: the archive written by a successful create() holds exactly the
\* members signature, manifest.json and pass.json, in front, and one member
\* per asset under the asset's name, with no other member and no name
\* twice, whatever assets add_file attached.
C14_ArchiveMembers ==
    Returned =>
        /\ Len(sink) = 3 + Len(_files)
        /\ SubSeq(ArchiveNames, 1, 3) = <<"signature", "manifest.json", "pass.json">>
        /\ \A i \in 1..Len(_files) : sink[3 + i] = _files[i]
        /\ \A i, k \in 1..Len(sink) : i # k => ArchiveNames[i] # ArchiveNames[k]

\* the digest map holds, for every current asset, the digest of its current
\* bytes, and no entry other than pass.json and the current assets
DigestsCurrent(hashes, files, pass_json) ==
    /\ \A i \in 1..Len(files) :
           /\ DictHas(hashes, files[i][1])
           /\ DictGet(hashes, files[i][1]) = Sha1(files[i][2])
    /\ \A i \in 1..Len(hashes) :
           \/ DictHas(files, hashes[i][1])
           \/ hashes[i] = <<"pass.json", Sha1(pass_json)>>
    /\ \A i, k \in 1..Len(hashes) : i # k => hashes[i][1] # hashes[k][1]

\* C15: no step of create() changes the pass state other than the digest
\* map; the manifest step leaves a digest map with the current digest of
\* every current asset and no other entry than pass.json's, whatever an
\* earlier assembly stored; and a successful create() has written the
\* document of the current state, the manifest of that digest map, its
\* signature, and the current assets as the asset members.
C15_ReflectsCurrentState ==
    /\ [][(pc # "idle" \/ pc' # "idle") => UNCHANGED passVars]_vars
    /\ [][pc = "manifest" => DigestsCurrent(_hashes', _files, cr.pass_json)]_vars
    /\ [](Returned =>
            /\ WrittenPassJson = PassJson
            /\ DigestsCurrent(_hashes, _files, WrittenPassJson)
            /\ sink[2][2] = ManifestJson(_hashes)
            /\ sink[1][2] = Pkcs7Sign(sink[2][2])
            /\ SubSeq(sink, 4, Len(sink)) = _files)

\* a later create() is building its manifest while the digest map still
\* holds, from an earlier assembly, the digest of bytes that add_file has
\* since replaced, and a barcode was attached since
C15_Witness ==
    /\ pc = "manifest"
    /\ Len(sink) > 0
    /\ Len(_barcodes) > 0
    /\ \E i \in 1..Len(_files) :
           /\ _files[i][1] = "icon.png"
           /\ DictHas(_hashes, "icon.png")
           /\ DictGet(_hashes, "icon.png") # Sha1(_files[i][2])
    /\ DictGet(_hashes, "pass.json") # Sha1(cr.pass_json)

-----------------------------------------------------------------------------
(* Properties of Location construction (SpecLocation) *)

\* the 'locations' array of the canonical document
LocationsArray == DictGet(JsonDict, "locations").v

\* C16: every constructed Location has its latitude within [-90, 90] and
\* its longitude within [-180, 180], and so has every entry of the
\* 'locations' array of the canonical document.
C16_CoordinatesInRange ==
    /\ (ret.op = "Location" /\ ret.exc = "none") =>
           /\ ret.obj.latitude >= -90 /\ ret.obj.latitude <= 90
           /\ ret.obj.longitude >= -180 /\ ret.obj.longitude <= 180
    /\ Len(_locations) > 0 =>
           \A i \in 1..Len(LocationsArray) :
               /\ DictGet(LocationsArray[i].v, "latitude").v >= -90
               /\ DictGet(LocationsArray[i].v, "latitude").v <= 90
               /\ DictGet(LocationsArray[i].v, "longitude").v >= -180
               /\ DictGet(LocationsArray[i].v, "longitude").v <= 180

\* C17: Location(latitude, longitude, ...) returns without raising for
\* every latitude and longitude argument, and a latitude or longitude that
\* cannot be converted to a number is stored as 0.0.
C17_ConstructionTotal ==
    ret.op = "Location" =>
        /\ ret.exc = "none"
        /\ ret.args[1].t # "num" => ret.obj.latitude = 0
        /\ ret.args[2].t # "num" => ret.obj.longitude = 0

-----------------------------------------------------------------------------
(* Properties of the legacy assignments (SpecLegacy) *)

\* add_location applied to each element in order, up to the first that
\* raises
RECURSIVE EachLocation(_, _)
EachLocation(list, values) ==
    IF Len(values) = 0 THEN [exc |-> "none", list |-> list]
    ELSE IF add_location(list, Head(values)).exc # "none"
    THEN add_location(list, Head(values))
    ELSE EachLocation(add_location(list, Head(values)).list, Tail(values))

RECURSIVE EachBeacon(_, _)
EachBeacon(list, values) ==
    IF Len(values) = 0 THEN [exc |-> "none", list |-> list]
    ELSE IF add_beacon(list, Head(values)).exc # "none"
    THEN add_beacon(list, Head(values))
    ELSE EachBeacon(add_beacon(list, Head(values)).list, Tail(values))

\* what the add-operation(s) make of the value assigned to a legacy name
ByAddOperations(name, value) ==
    IF name = "barcode" THEN add_barcode(_barcodes, value)
    ELSE IF name = "relevant_date" THEN add_relevant_date(_relevant_dates, value)
    ELSE IF name = "locations"
    THEN (IF value.type = "list" THEN EachLocation(_locations, value.obj)
          ELSE add_location(_locations, value))
    ELSE (IF value.type = "list" THEN EachBeacon(_beacons, value.obj)
          ELSE add_beacon(_beacons, value))

\* the list behind a legacy name
ListOf(name) ==
    IF name = "barcode" THEN _barcodes
    ELSE IF name = "relevant_date" THEN _relevant_dates
    ELSE IF name = "locations" THEN _locations
    ELSE _beacons

\* C18: an assignment to barcode, locations, ibeacons or relevant_date
\* leaves the pass as the add-operation would (for a list assigned to
\* locations or ibeacons: add_location or add_beacon on each element in
\* order), with the same exception; assigning None changes nothing; what
\* was attached before stays in front; and the pass never stores an
\* attribute named barcode, locations, ibeacons or relevant_date.
C18_LegacyAssignment ==
    /\ [](DOMAIN attrs \cap {"barcode", "locations", "ibeacons", "relevant_date"} = {})
    /\ [][\A name \in {"barcode", "locations", "ibeacons", "relevant_date"} :
            ret'.op = name =>
               /\ IF ret'.obj.type = "NoneType"
                  THEN ListOf(name)' = ListOf(name) /\ ret'.exc = "none"
                  ELSE /\ ListOf(name)' = ByAddOperations(name, ret'.obj).list
                       /\ ret'.exc = ByAddOperations(name, ret'.obj).exc
               /\ SubSeq(ListOf(name)', 1, Len(ListOf(name))) = ListOf(name)
               /\ \A rest \in {"barcode", "locations", "ibeacons", "relevant_date"} :
                      rest # name => ListOf(rest)' = ListOf(rest)
               /\ UNCHANGED <<pass_information, pass_type_identifier,
                              organization_name, team_identifier, serial_number,
                              description, attrs, _files>>]_vars

\* a list of two locations was assigned to a pass that held one already,
\* on which a barcode and a date had been attached and another attribute
\* stored
C18_Witness ==
    /\ ret.op = "locations"
    /\ ret.exc = "none"
    /\ ret.obj.type = "list"
    /\ Len(ret.obj.obj) = 2
    /\ Len(_locations) = 3
    /\ Len(_barcodes) = 2
    /\ Len(_relevant_dates) = 2
    /\ "custom" \in DOMAIN attrs

-----------------------------------------------------------------------------
(* Properties of two instances (SpecTwo) *)

\* the pass held in the record r of an instance's attributes
PassOf(r) ==
    [pass_information |-> r.pass_information,
     pass_type_identifier |-> r.pass_type_identifier,
     organization_name |-> r.organization_name,
     team_identifier |-> r.team_identifier,
     serial_number |-> r.serial_number, description |-> r.description,
     attrs |-> r.attrs, barcodes |-> r._barcodes, locations |-> r._locations,
     beacons |-> r._beacons, relevant_dates |-> r._relevant_dates]

\* an instance whose create() has returned holds what it would hold had it
\* run alone: the document of its own pass, the digests of that document
\* and of its own assets and no other, the manifest of these, and an
\* archive of its own assets
AsIfAlone(r) ==
    (r.pc = "idle" /\ r.ret.op = "create" /\ r.ret.exc = "none") =>
        /\ r.sink[3][2] = Dumps(JDict(JsonDictOf(PassOf(r))))
        /\ r._hashes = ManifestHashes(<< >>, r.sink[3][2], r._files)
        /\ r.sink[2][2] = ManifestJson(r._hashes)
        /\ r.sink[1][2] = Pkcs7Sign(r.sink[2][2])
        /\ SubSeq(r.sink, 4, Len(r.sink)) = r._files

\* C19: with two ApplePass instances whose add-operations, add_file calls
\* and create() steps interleave in every order, a step on one instance
\* leaves the other instance as it was, and each instance's document,
\* manifest and archive are those of its own state alone.
C19_Independent ==
    /\ [](AsIfAlone(State) /\ AsIfAlone(other))
    /\ [][other' = other \/ (other' = State /\ State' = other)]_vars

\* both instances have returned from create() with different assets, and
\* the second ran its manifest step while the first was inside create()
C19_Witness ==
    /\ pc = "idle" /\ ret.op = "create" /\ ret.exc = "none"
    /\ other.pc = "sign"
    /\ Len(other.sink) > 0
    /\ DictHas(_files, "icon.png")
    /\ DictHas(other._files, "logo.png")
    /\ ~DictHas(other._files, "icon.png")

-----------------------------------------------------------------------------
(* Order of the steps of create() (Spec) *)

StepOrder == <<"validate", "encode", "manifest", "sign", "zip">>

\* the position inside create() after n steps have been entered
PositionAfter(n) == <<"idle", "encode", "manifest", "sign", "zip", "idle">>[n + 1]

\* C20: the steps a create() call has entered are validate, encode,
\* manifest, sign, archive in this order, each at most once; a step is
\* entered only as the next after the steps before it, a call that has
\* stopped short of a step has raised, and a step entered is either the
\* first of a new call or the one that follows the last entered.
C20_StepOrder ==
    /\ [](/\ Len(steps) <= 5
          /\ steps = SubSeq(StepOrder, 1, Len(steps))
          /\ pc # "idle" => pc = PositionAfter(Len(steps))
          /\ (pc = "idle" /\ Len(steps) \in 1..4) =>
                 /\ Len(steps) \in {1, 4}
                 /\ (ret.op = "create" => ret.exc # "none"))
    /\ [][steps' # steps =>
            \/ pc = "idle" /\ steps' = <<"validate">>
            \/ /\ pc # "idle"
               /\ Len(steps') = Len(steps) + 1
               /\ SubSeq(steps', 1, Len(steps)) = steps
               /\ steps'[Len(steps')] = pc]_vars

\* a call has run all five steps and returned, and an earlier call of the
\* same pass had written an archive
C20_Witness ==
    /\ Returned
    /\ steps = StepOrder
    /\ last.again

-----------------------------------------------------------------------------
(* Properties of Barcode objects (SpecBarcodeObject) *)

FourFormats ==
    {"PKBarcodeFormatPDF417", "PKBarcodeFormatQR", "PKBarcodeFormatAztec",
     "PKBarcodeFormatCode128"}

\* a barcode entry of the document with a non-empty message and one of the
\* four formats
WellFormedEntry(entry) ==
    /\ DictGet(entry.v, "message").t = "str"
    /\ DictGet(entry.v, "message").v # ""
    /\ DictGet(entry.v, "format").t = "str"
    /\ DictGet(entry.v, "format").v \in FourFormats

\* C21: Barcode(message, format, ...) raises ValueError exactly when the
\* message is None or empty or the format is not one of the four; assigning
\* such a value to message or format of a barcode raises ValueError and
\* leaves the barcode as it was, any other value is stored; and every entry
\* of 'barcodes' and the legacy 'barcode' entry of the canonical document
\* have a non-empty message and one of the four formats.
C21_BarcodeValid ==
    /\ [](ret.op = "Barcode" =>
            /\ ret.exc \in {"none", "ValueError"}
            /\ ret.exc = "ValueError" <=>
                   (~Given(ret.args[1]) \/ ret.args[2] \notin FourFormats)
            /\ ret.exc = "none" =>
                   ret.obj.message = ret.args[1] /\ ret.obj.format = ret.args[2])
    /\ [](\A i \in 1..Len(_barcodes) :
            Given(_barcodes[i].message) /\ _barcodes[i].format \in FourFormats)
    /\ [](Len(_barcodes) > 0 =>
            /\ \A i \in 1..Len(BarcodesArray) : WellFormedEntry(BarcodesArray[i])
            /\ WellFormedEntry(DictGet(JsonDict, "barcode")))
    /\ [][ret'.op = "Barcode.message" =>
            IF Given(ret'.args[2])
            THEN ret'.exc = "none" /\ _barcodes'[ret'.args[1]].message = ret'.args[2]
            ELSE ret'.exc = "ValueError" /\ _barcodes' = _barcodes]_vars
    /\ [][ret'.op = "Barcode.format" =>
            IF ret'.args[2] \in FourFormats
            THEN ret'.exc = "none" /\ _barcodes'[ret'.args[1]].format = ret'.args[2]
            ELSE ret'.exc = "ValueError" /\ _barcodes' = _barcodes]_vars

\* an empty message was assigned to an attached QR barcode whose message
\* had been changed before: the assignment raised
C21_Witness ==
    /\ ret.op = "Barcode.message"
    /\ ret.args[2] = ""
    /\ ret.exc = "ValueError"
    /\ Len(_barcodes) > 0
    /\ _barcodes[1].message = "m2"
    /\ _barcodes[1].format = "PKBarcodeFormatQR"

-----------------------------------------------------------------------------
(* Properties of the authentication token (SpecToken) *)

\* the document holds an authenticationToken of fewer than 16 characters
ShortTokenInDocument ==
    /\ DictHas(JsonDict, "authenticationToken")
    /\ DictGet(JsonDict, "authenticationToken").t = "str"
    /\ Len(DictGet(JsonDict, "authenticationToken").v) < 16

\* C22: an authentication token of fewer than 16 characters is rejected
\* with ValueError when it is assigned to the pass, and no create() has
\* encoded, digested or signed a canonical document whose
\* authenticationToken has fewer than 16 characters.
C22_TokenCheckedWhenSet ==
    /\ (ret.op = "authentication_token" /\ attrs.authentication_token # None
        /\ Len(attrs.authentication_token) < 16) => ret.exc = "ValueError"
    /\ (pc \in {"manifest", "sign", "zip"} /\ cr.pass_json = PassJson)
           => ~ShortTokenInDocument

-----------------------------------------------------------------------------
(* Properties of validate_authentication_token (SpecTokenValidator) *)

\* C23: validate_authentication_token(token) raises ValueError when token
\* is not a str or is a str of fewer than 16 characters, and returns True
\* when it is a str of 16 characters or more.
C23_TokenBoundary ==
    ret.op = "validate_authentication_token" =>
        IF ret.args[1].type = "str"
        THEN IF Len(ret.args[1].obj) >= 16
             THEN ret.exc = "none" /\ ret.obj.t = "bool" /\ ret.obj.v
             ELSE ret.exc = "ValueError"
        ELSE ret.exc = "ValueError"

\* a token of exactly 16 characters was accepted
C23_Witness ==
    /\ ret.op = "validate_authentication_token"
    /\ ret.args[1].type = "str"
    /\ Len(ret.args[1].obj) = 16
    /\ ret.exc = "none"

-----------------------------------------------------------------------------
(* Properties of hex_to_rgb (SpecHex) *)

HexadecimalDigits == <<"0", "1", "2", "3", "4", "5", "6", "7", "8", "9",
                       "A", "B", "C", "D", "E", "F">>
LowerCaseDigits == <<"a", "b", "c", "d", "e", "f">>

IsHexadecimalDigit(c) ==
    \/ \E i \in 1..16 : HexadecimalDigits[i] = c
    \/ \E i \in 1..6 : LowerCaseDigits[i] = c

HexadecimalValue(c) ==
    IF \E i \in 1..16 : HexadecimalDigits[i] = c
    THEN (CHOOSE i \in 1..16 : HexadecimalDigits[i] = c) - 1
    ELSE (CHOOSE i \in 1..6 : LowerCaseDigits[i] = c) + 9

\* the characters that follow the leading '#'
RECURSIVE WithoutLeadingHash(_)
WithoutLeadingHash(s) ==
    IF Len(s) > 0 /\ s[1] = "#" THEN WithoutLeadingHash(Tail(s)) ELSE s

\* the decimal value of the component written with the digits hi and lo
Component(hi, lo) == ToString(16 * HexadecimalValue(hi) + HexadecimalValue(lo))

\* "rgb(r, g, b)" for six hexadecimal digits
RgbOfSix(s) ==
    "rgb(" \o Component(s[1], s[2]) \o ", " \o Component(s[3], s[4]) \o ", "
    \o Component(s[5], s[6]) \o ")"

\* C24: hex_to_rgb(s) returns "rgb(r, g, b)" with the decimal values of the
\* three components when s without its leading '#' is exactly 6
\* hexadecimal digits, or exactly 3 hexadecimal digits, each doubled; for
\* every other string it raises ValueError, also for one of 3 or 6
\* characters of which one is no hexadecimal digit.
C24_HexToRgb ==
    (ret.op = "hex_to_rgb" /\ ret.args[1].type = "str") =>
        LET s == WithoutLeadingHash(ret.args[1].obj)
        IN  IF Len(s) \in {3, 6} /\ \A i \in 1..Len(s) : IsHexadecimalDigit(s[i])
            THEN /\ ret.exc = "none"
                 /\ ret.obj = RgbOfSix(IF Len(s) = 6 THEN s
                                       ELSE <<s[1], s[1], s[2], s[2], s[3], s[3]>>)
            ELSE ret.exc = "ValueError"

-----------------------------------------------------------------------------
(* Properties of Personalization (SpecPersonalization) *)

FourFieldNames ==
    {"PKPassPersonalizationFieldName", "PKPassPersonalizationFieldPostalCode",
     "PKPassPersonalizationFieldEmailAddress", "PKPassPersonalizationFieldPhoneNumber"}

\* the element is one of the four names
IsFieldName(e) == e.type = "str" /\ e.obj \in FourFieldNames

\* the field list of the 'personalization' entry of the document
PersonalizationFields ==
    DictGet(DictGet(JsonDict, "personalization").v, "requiredPersonalizationFields").v

\* C25: Personalization(required_fields, ...) raises TypeError when
\* required_fields is not a list, ValueError when it is an empty list or
\* holds an element that is not one of the four field names, and otherwise
\* builds an object whose json_dict() holds requiredPersonalizationFields
\* equal to the given list; the 'personalization' entry of a pass never has
\* an empty field list or one with a name that is not one of the four.
C25_PersonalizationFields ==
    /\ ret.op = "Personalization" =>
           IF ret.args[1].type # "list" THEN ret.exc = "TypeError"
           ELSE IF Len(ret.args[1].obj) = 0 THEN ret.exc = "ValueError"
           ELSE IF \E i \in 1..Len(ret.args[1].obj) : ~IsFieldName(ret.args[1].obj[i])
           THEN ret.exc = "ValueError"
           ELSE /\ ret.exc = "none"
                /\ DictGet(PersonalizationJson(ret.obj).v,
                           "requiredPersonalizationFields").v
                       = [i \in 1..Len(ret.args[1].obj) |-> JStr(ret.args[1].obj[i].obj)]
    /\ DictHas(JsonDict, "personalization") =>
           /\ Len(PersonalizationFields) > 0
           /\ \A i \in 1..Len(PersonalizationFields) :
                  PersonalizationFields[i].v \in FourFieldNames

-----------------------------------------------------------------------------
(* Properties of the add-operations that raise (SpecAdds) *)

AddOperations == {"add_barcode", "add_location", "add_beacon", "add_relevant_date"}

\* C26: an add-operation that raises leaves the pass as it was; add_barcode,
\* add_location, add_beacon and add_relevant_date called with an argument
\* of a wrong type raise TypeError; add_location and add_beacon called
\* when 10 are attached raise TypeError for an argument of a wrong type and
\* ValueError for one of the right type, and the list is the same after.
C26_FailedAddChangesNothing ==
    /\ [][(ret'.op \in AddOperations /\ ret'.exc # "none")
            => UNCHANGED <<passVars, _hashes, sink>>]_vars
    /\ [][(ret'.op = "add_barcode" /\ ret'.obj # "Barcode")
            => ret'.exc = "TypeError"]_vars
    /\ [][(ret'.op = "add_relevant_date"
           /\ ret'.obj \notin {"RelevantDate", "str"})
            => ret'.exc = "TypeError"]_vars
    /\ [][(ret'.op = "add_location" /\ ret'.args[1] # "Location")
            => ret'.exc = "TypeError"]_vars
    /\ [][(ret'.op = "add_beacon" /\ ret'.args[1] # "IBeacon")
            => ret'.exc = "TypeError"]_vars
    /\ [][(ret'.op = "add_location" /\ Len(_locations) = 10) =>
            /\ ret'.exc = IF ret'.args[1] = "Location" THEN "ValueError" ELSE "TypeError"
            /\ _locations' = _locations]_vars
    /\ [][(ret'.op = "add_beacon" /\ Len(_beacons) = 10) =>
            /\ ret'.exc = IF ret'.args[1] = "IBeacon" THEN "ValueError" ELSE "TypeError"
            /\ _beacons' = _beacons]_vars

\* add_location has just raised TypeError on a pass that holds 10
\* locations, a barcode and a relevant date
C26_Witness ==
    /\ ret.op = "add_location"
    /\ ret.args = <<"object">>
    /\ ret.exc = "TypeError"
    /\ Len(_locations) = 10
    /\ Len(_barcodes) > 0
    /\ Len(_relevant_dates) > 0

-----------------------------------------------------------------------------
(* Properties of the add-operations under threads (SpecThreads) *)

\* the threads that are between the length test and the append of op
Pending(op) == {t \in Threads : calls[t].pc = "append" /\ calls[t].op = op}

\* C27: with the length test and the append of add_location (add_beacon)
\* as separate steps and no lock, a thread that has passed the test appends
\* whatever the list holds by then; the list never holds more than 10
\* elements plus one for every thread but one, and together with the calls
\* that have passed the test never more than 10 plus one for every thread
\* but one: two threads that both pass the test at 9 leave 11.
C27_CheckThenAppend ==
    /\ [][\A t \in Threads :
            (calls[t].pc = "append" /\ calls'[t].pc = "idle") =>
                /\ calls'[t].exc = "none"
                /\ calls[t].op = "add_location"
                       => _locations' = Append(_locations, calls[t].arg.obj)
                /\ calls[t].op = "add_beacon"
                       => _beacons' = Append(_beacons, calls[t].arg.obj)]_vars
    /\ [](Len(_locations) + Cardinality(Pending("add_location")) <= 10 + NThreads - 1)
    /\ [](Len(_beacons) + Cardinality(Pending("add_beacon")) <= 10 + NThreads - 1)

\* two threads have passed the test of add_location while the pass held 9
\* locations, and both have appended: the pass holds 11
C27_Witness ==
    /\ Len(_locations) = 11
    /\ \A t \in 1..2 : calls[t].op = "add_location" /\ calls[t].pc = "idle"
                       /\ calls[t].exc = "none"

-----------------------------------------------------------------------------
(* Properties of repeated field keys (SpecFields) *)

\* the JSON key of a field collection
JsonKeyOf(slot) == Slots[CHOOSE i \in 1..Len(Slots) : Slots[i][1] = slot][2]

\* the serialized collection of slot: the entries under its JSON key in the
\* projection of info, none when the key is absent
Serialized(info, slot) ==
    IF DictHas(InfoJson(info).v, JsonKeyOf(slot))
    THEN DictGet(InfoJson(info).v, JsonKeyOf(slot)).v ELSE << >>

\* the serialized entry of a field with this key and value
EntryHas(entry, key, value) ==
    /\ DictGet(entry.v, "key").v = key
    /\ DictGet(entry.v, "value").v = value

\* C28: adding a field whose key already occurs in the same or in another
\* collection raises nothing and returns the field, which is appended: the
\* fields that were there stay in place, and every collection is
\* serialized with one entry per field in the order of adding, the entries
\* of equal key included.
C28_KeysNotUnique ==
    /\ [][ret'.op = "add_field" =>
            /\ ret'.exc = "none"
            /\ ret'.obj.key = ret'.args[2]
            /\ pass_information'[ret'.args[1]]
                   = Append(pass_information[ret'.args[1]], ret'.obj)
            /\ \A slot \in SlotNames \ {ret'.args[1]} :
                   pass_information'[slot] = pass_information[slot]
            /\ Serialized(pass_information', ret'.args[1])
                   = Append(Serialized(pass_information, ret'.args[1]),
                            FieldJson(ret'.obj))]_vars
    /\ [](\A slot \in SlotNames :
            /\ Len(Serialized(pass_information, slot)) = Len(pass_information[slot])
            /\ \A i \in 1..Len(pass_information[slot]) :
                   EntryHas(Serialized(pass_information, slot)[i],
                            pass_information[slot][i].key,
                            pass_information[slot][i].value))

\* the key "gate" was added to the header fields twice, with two values,
\* and then to the back fields
C28_Witness ==
    /\ ret.op = "add_field"
    /\ ret.args = <<"back_fields", "gate">>
    /\ Len(pass_information.header_fields) = 2
    /\ pass_information.header_fields[1].key = "gate"
    /\ pass_information.header_fields[2].key = "gate"
    /\ pass_information.header_fields[1].value = "A23"
    /\ pass_information.header_fields[2].value = "B7"
    /\ Len(pass_information.back_fields) = 1

-----------------------------------------------------------------------------
(* Properties of a legacy list assignment that raises (SpecRelevance) *)

\* the elements of the assigned list L that are attached to a list of n
\* elements before one raises: those in front of the first element that is
\* not of the type, or that would be the eleventh
AttachedBefore(n, L, type) ==
    IF \E k \in 1..Len(L) : L[k].type # type \/ n + k - 1 >= 10
    THEN (CHOOSE k \in 1..Len(L) :
              /\ L[k].type # type \/ n + k - 1 >= 10
              /\ \A m \in 1..(k - 1) : L[m].type = type /\ n + m - 1 < 10) - 1
    ELSE Len(L)

\* the objects of the first k arguments of L, in order
RECURSIVE ObjectsOf(_, _)
ObjectsOf(L, k) ==
    IF k = 0 THEN << >> ELSE Append(ObjectsOf(L, k - 1), L[k].obj)

\* every variable, with the operation and the exception of the last return
\* in front: a step changes this tuple exactly when it changes vars
outcomeAndVars == <<ret.op, ret.exc, vars>>

\* C29: when the assignment of a list L to locations or ibeacons raises at
\* an element, because it is of another type (TypeError) or would be the
\* eleventh (ValueError), the elements of L in front of it have been
\* attached, in order behind those the pass held, and stay attached; the
\* failing element and those behind it are not attached.
C29_PartialAssignment ==
    /\ [][(ret'.op = "locations" /\ ret'.obj.type = "list" /\ ret'.exc # "none") =>
            LET L == ret'.obj.obj
                k == AttachedBefore(Len(_locations), L, "Location")
            IN  /\ k < Len(L)
                /\ ret'.exc = IF L[k + 1].type # "Location"
                              THEN "TypeError" ELSE "ValueError"
                /\ _locations' = _locations \o ObjectsOf(L, k)]_outcomeAndVars
    /\ [][(ret'.op = "ibeacons" /\ ret'.obj.type = "list" /\ ret'.exc # "none") =>
            LET L == ret'.obj.obj
                k == AttachedBefore(Len(_beacons), L, "IBeacon")
            IN  /\ k < Len(L)
                /\ ret'.exc = IF L[k + 1].type # "IBeacon"
                              THEN "TypeError" ELSE "ValueError"
                /\ _beacons' = _beacons \o ObjectsOf(L, k)]_outcomeAndVars

\* the list [Location, object] was assigned to a new pass: the assignment
\* raised TypeError and the pass holds the Location
C29_Witness ==
    /\ ret.op = "locations"
    /\ ret.exc = "TypeError"
    /\ ret.obj.type = "list"
    /\ Len(ret.obj.obj) = 2
    /\ ret.obj.obj[1].type = "Location"
    /\ ret.obj.obj[2].type = "object"
    /\ Len(_locations) = 1

-----------------------------------------------------------------------------
(* C30: one encoding and one manifest per create() *)

\* how often a step occurs among the steps of the running create()
StepCount(name) == Cardinality({i \in 1..Len(steps) : steps[i] = name})

=============================================================================
